---- MODULE Spec2Model ----
(***************************************************************************)
(* Verification model of the coordination core of the research-report      *)
(* generator: TaskPlanner (src/src/task_planner.py), ResearchCoordinator   *)
(* (src/src/research_coordinator.py) and MemoryManager                     *)
(* (src/src/memory_manager.py, with the EmbeddingGenerator cache of        *)
(* src/src/utils/embeddings.py).                                           *)
(*                                                                         *)
(* Scores are held as tenths (7.0 is 70), similarities as hundredths       *)
(* (0.95 is 95).  Python's None is the string "None"; an index 0 into a    *)
(* sequence stands for "no object".                                        *)
(***************************************************************************)
EXTENDS Integers, Sequences, FiniteSets, TLC

VARIABLES
    tasks,          \* TaskPlanner.tasks: sequence of Subtask records
    original_goal,  \* TaskPlanner.original_goal
    planner_ret,    \* outcome of the last TaskPlanner call
    pc,             \* ResearchCoordinator.run: the stage about to execute
    topic,          \* run's local `topic`
    research_data,  \* run's local `research_data`
    analysis,       \* run's local `analysis`
    draft,          \* run's local `draft`
    review,         \* run's local `review`
    revision_count, \* run's local `revision_count`
    round_num,      \* run's loop variable `round_num`
    feedback,       \* run's local `feedback`
    previous_report,\* run's local `previous_report`
    writer_input,   \* the dict handed to the last writer.execute call
    calls,          \* stage name -> number of execute() calls made in this run
    raised_in,      \* stages whose execute() raised in this run
    run_ret,        \* what run() gave its caller
    collection,     \* MemoryManager.collection: document id -> stored document
    embedding_generator, \* MemoryManager.embedding_generator: cache and counters
    next_uuid,      \* the next value uuid.uuid4() produces
    mem_ret,        \* outcome of the last MemoryManager call
    emb_ret,        \* outcome of the last call made on the EmbeddingGenerator itself
    merge_ret,      \* arguments and result of the last SearchAgent._merge_results call
    critic_ret,     \* LLM answer and result of the last QualityCritic.execute call
    search_ret      \* arguments, calls made and result of the last search_with_memory

plannerVars == <<tasks, original_goal, planner_ret>>

coordVars == <<pc, topic, research_data, analysis, draft, review, revision_count,
               round_num, feedback, previous_report, writer_input, calls,
               raised_in, run_ret>>

memVars == <<collection, embedding_generator, next_uuid, mem_ret>>

embVars == <<emb_ret>>

mergeVars == <<merge_ret>>

criticVars == <<critic_ret>>

searchVars == <<search_ret>>

vars == <<plannerVars, coordVars, memVars, embVars, mergeVars, criticVars, searchVars>>

(***************************************************************************)
(* TaskPlanner                                                             *)
(***************************************************************************)

\* Subtask.max_attempts default
DefaultMaxAttempts == 3

TaskStatus == {"pending", "in_progress", "completed", "failed", "skipped"}

\* Subtask(id, description, priority, dependencies) with the dataclass defaults
Subtask(id, description, priority, dependencies) ==
    [id |-> id, description |-> description, priority |-> priority,
     dependencies |-> dependencies, status |-> "pending", result |-> "None",
     attempts |-> 0, max_attempts |-> DefaultMaxAttempts]

\* One entry of the "subtasks" array of the LLM's JSON answer.  keys is the
\* set of keys the entry carries; a missing "dependencies" key defaults to [].
TaskData(keys, id, priority, dependencies) ==
    [keys |-> keys, id |-> id, priority |-> priority, dependencies |-> dependencies]

FullKeys == {"id", "description", "priority", "dependencies"}

\* The answers of the LLM service the model draws from.
\*   kind "api_error"    : chat.completions.create raises
\*   kind "none_content" : message.content is None
\*   kind "invalid_json" : json.loads raises JSONDecodeError
\*   kind "non_object"   : valid JSON that is not an object (a list)
\*   kind "object"       : a JSON object; has_subtasks tells whether it has the key
LLMAnswers ==
    { [kind |-> "api_error", has_subtasks |-> FALSE, subtasks |-> <<>>],
      [kind |-> "none_content", has_subtasks |-> FALSE, subtasks |-> <<>>],
      [kind |-> "invalid_json", has_subtasks |-> FALSE, subtasks |-> <<>>],
      [kind |-> "non_object", has_subtasks |-> FALSE, subtasks |-> <<>>],
      [kind |-> "object", has_subtasks |-> FALSE, subtasks |-> <<>>],
      \* A(prio 1), B(prio 2, dep A), C(prio 1, dep A)
      [kind |-> "object", has_subtasks |-> TRUE, subtasks |->
          << TaskData(FullKeys, "A", 1, {}),
             TaskData(FullKeys, "B", 2, {"A"}),
             TaskData(FullKeys, "C", 1, {"A"}) >>],
      \* equal priorities and no "dependencies" key
      [kind |-> "object", has_subtasks |-> TRUE, subtasks |->
          << TaskData({"id", "description", "priority"}, "A", 2, {}),
             TaskData({"id", "description", "priority"}, "B", 2, {}) >>],
      \* a dependency on an id that names no subtask
      [kind |-> "object", has_subtasks |-> TRUE, subtasks |->
          << TaskData(FullKeys, "A", 1, {"Z"}),
             TaskData(FullKeys, "B", 2, {}) >>],
      \* a dependency cycle
      [kind |-> "object", has_subtasks |-> TRUE, subtasks |->
          << TaskData(FullKeys, "A", 2, {"B"}),
             TaskData(FullKeys, "B", 1, {"A"}) >>],
      \* second entry lacks "priority"
      [kind |-> "object", has_subtasks |-> TRUE, subtasks |->
          << TaskData(FullKeys, "A", 1, {}),
             TaskData({"id", "description"}, "B", 0, {}) >>] }

\* the goals callers pass; "" stands for an empty or whitespace-only goal
Goals == {"", "g1"}

TaskIds == {"A", "B", "C", "Z"}

\* the executor's result argument: a result text accompanies a completion,
\* every other status update is made without one
ResultFor(status) == IF status = "completed" THEN "r" ELSE "None"

\* TaskPlanner._get_task_by_id: index of the first task with that id, 0 for None
GetTaskById(task_id, ts) ==
    IF \E i \in DOMAIN ts : ts[i].id = task_id
    THEN CHOOSE i \in DOMAIN ts :
            /\ ts[i].id = task_id
            /\ \A j \in DOMAIN ts : ts[j].id = task_id => i <= j
    ELSE 0

\* _dependencies_met that skips a dependency id it cannot find
DependenciesMet_skipUnknown(task, ts) ==
    \A dep_id \in task.dependencies :
        GetTaskById(dep_id, ts) # 0 => ts[GetTaskById(dep_id, ts)].status = "completed"

\* _dependencies_met that lets a failed dependency count as done
DependenciesMet_failedCounts(task, ts) ==
    \A dep_id \in task.dependencies :
        /\ GetTaskById(dep_id, ts) # 0
        /\ ts[GetTaskById(dep_id, ts)].status \in {"completed", "failed"}

\* TaskPlanner._dependencies_met
DependenciesMet(task, ts) ==
    \A dep_id \in task.dependencies :
        /\ GetTaskById(dep_id, ts) # 0
        /\ ts[GetTaskById(dep_id, ts)].status = "completed"

\* the list comprehension `executable` of get_next_task, as a set of indices
Executable(ts) ==
    { i \in DOMAIN ts :
        /\ ts[i].status = "pending"
        /\ DependenciesMet(ts[i], ts)
        /\ ts[i].attempts < ts[i].max_attempts }

\* `retryable` without the attempts < max_attempts test
Retryable_noBudget(ts) ==
    { i \in DOMAIN ts :
        /\ ts[i].status = "failed"
        /\ DependenciesMet(ts[i], ts) }

\* the list comprehension `retryable` of get_next_task
Retryable(ts) ==
    { i \in DOMAIN ts :
        /\ ts[i].status = "failed"
        /\ ts[i].attempts < ts[i].max_attempts
        /\ DependenciesMet(ts[i], ts) }

\* a selection that takes the last of the lowest-priority candidates
SortedFirst_lastOfTies(S, ts) ==
    CHOOSE i \in S :
        \A j \in S : \/ ts[i].priority < ts[j].priority
                     \/ (ts[i].priority = ts[j].priority /\ i >= j)

\* sorted(candidates, key=lambda t: t.priority)[0]: Python's sort is stable,
\* so the first element is the lowest-priority one that comes first in the list
SortedFirst(S, ts) ==
    CHOOSE i \in S :
        \A j \in S : \/ ts[i].priority < ts[j].priority
                     \/ (ts[i].priority = ts[j].priority /\ i <= j)

\* a hand-out that leaves the attempts counter alone
HandOut_noCount(i, ts) == [ts EXCEPT ![i].status = "in_progress"]

\* task.status = IN_PROGRESS; task.attempts += 1
HandOut(i, ts) ==
    [ts EXCEPT ![i].status = "in_progress", ![i].attempts = @ + 1]

\* the for loop of decompose: entries are appended until one lacks a key
RECURSIVE BuildTasks(_, _)
BuildTasks(entries, acc) ==
    IF entries = <<>> THEN [tasks |-> acc, raised |-> FALSE]
    ELSE LET td == Head(entries) IN
         IF {"id", "description", "priority"} \subseteq td.keys
         THEN BuildTasks(Tail(entries),
                         Append(acc, Subtask(td.id, "d", td.priority,
                             IF "dependencies" \in td.keys THEN td.dependencies ELSE {})))
         ELSE [tasks |-> acc, raised |-> TRUE]

\* the exception classes decompose lets through (only JSONDecodeError is caught)
DecomposeOutcome(goal, answer) ==
    CASE answer.kind = "api_error" ->
            [tasks |-> <<>>, raised |-> TRUE]
      [] answer.kind = "none_content" ->
            [tasks |-> <<>>, raised |-> TRUE]
      [] answer.kind = "non_object" ->
            [tasks |-> <<>>, raised |-> TRUE]
      [] answer.kind = "invalid_json" ->
            [tasks |-> << Subtask("task_1", goal, 1, {}) >>, raised |-> FALSE]
      [] answer.kind = "object" ->
            BuildTasks(IF answer.has_subtasks THEN answer.subtasks ELSE <<>>, <<>>)

\* TaskPlanner.decompose(goal)
Decompose(goal, answer) ==
    LET out == DecomposeOutcome(goal, answer) IN
    /\ original_goal' = goal
    /\ tasks' = out.tasks
    /\ planner_ret' = [op |-> "decompose", raised |-> out.raised,
                       value |-> 0, answer |-> answer, goal |-> goal,
                       llm_calls |-> 1]

\* TaskPlanner.get_next_task()
GetNextTask ==
    /\ tasks' = IF Executable(tasks) # {}
                THEN HandOut(SortedFirst(Executable(tasks), tasks), tasks)
                ELSE IF Retryable(tasks) # {}
                THEN HandOut(SortedFirst(Retryable(tasks), tasks), tasks)
                ELSE tasks
    /\ planner_ret' = [op |-> "get_next_task", raised |-> FALSE,
                       value |-> IF Executable(tasks) # {}
                                 THEN SortedFirst(Executable(tasks), tasks)
                                 ELSE IF Retryable(tasks) # {}
                                 THEN SortedFirst(Retryable(tasks), tasks)
                                 ELSE 0]
    /\ UNCHANGED original_goal

\* TaskPlanner.update_status(task_id, status, result)
UpdateStatus(task_id, status, result) ==
    LET i == GetTaskById(task_id, tasks) IN
    /\ tasks' = IF i = 0 THEN tasks
                ELSE [tasks EXCEPT ![i].status = status,
                                   ![i].result = IF result # "None" THEN result ELSE @]
    /\ planner_ret' = [op |-> "update_status", raised |-> FALSE,
                       value |-> IF i = 0 THEN 0 ELSE 1]
    /\ UNCHANGED original_goal

\* TaskPlanner.is_complete()
IsComplete(ts) ==
    \A i \in DOMAIN ts : ts[i].status \in {"completed", "skipped"}

\* TaskPlanner.__init__
PlannerInit ==
    /\ tasks = <<>>
    /\ original_goal = ""
    /\ planner_ret = [op |-> "init", raised |-> FALSE, value |-> 0]

DecomposeStep == \E goal \in Goals, answer \in LLMAnswers : Decompose(goal, answer)

UpdateStatusStep ==
    \E task_id \in TaskIds, status \in TaskStatus :
        UpdateStatus(task_id, status, ResultFor(status))

\* a caller asks is_complete(); the answer is kept as 1 (True) or 0 (False)
IsCompleteCall ==
    /\ planner_ret' = [op |-> "is_complete", raised |-> FALSE,
                       value |-> IF IsComplete(tasks) THEN 1 ELSE 0]
    /\ UNCHANGED <<tasks, original_goal>>

\* the execution loop's planner is decomposed once, right after construction
DecomposeOnceStep ==
    /\ planner_ret.op = "init"
    /\ DecomposeStep

\* the execution loop reports on a subtask it was handed, following the
\* lifecycle in_progress -> completed | failed | skipped
ReportStep ==
    \E i \in DOMAIN tasks, status \in {"completed", "failed", "skipped"} :
        /\ tasks[i].status = "in_progress"
        /\ UpdateStatus(tasks[i].id, status, ResultFor(status))

(***************************************************************************)
(* ResearchCoordinator                                                     *)
(***************************************************************************)

\* ResearchCoordinator.max_revision_rounds
MaxRevisionRounds == 2

\* QualityCritic.PASS_THRESHOLD (7.0)
PASS_THRESHOLD == 70

\* quality_critic._DEFAULT_SCORE (5.0)
DEFAULT_SCORE == 50

\* quality_critic._SCORE_KEYS
SCORE_KEYS == {"completeness", "accuracy", "clarity", "structure", "source_quality"}

Stages == {"collect", "analyze", "write", "critique"}

\* the empty dict {}
EmptyDict == [k \in {} |-> 0]

\* dict.get(key, default)
Get(d, key, default) == IF key \in DOMAIN d THEN d[key] ELSE default

\* Python's `x or y` for a text x (the empty text is falsy)
OrText(x, y) == IF x = "" THEN y ELSE x

\* (topic or "").strip() or "일반"
NormalizeTopic(t) == IF t \in {"", " "} THEN "general" ELSE t

Topics == {"", "ev"}

\* what researcher.execute can return
ResearchOutputs ==
    { [queries_used |-> <<"q1", "q2">>, source_count |-> 5, source_urls |-> <<"u1">>],
      [queries_used |-> <<"ev">>, source_count |-> 0, source_urls |-> <<>>] }

\* what analyzer.execute can return; the second is AnalysisAgent's failure sentinel
AnalysisOutputs ==
    { [clusters |-> <<"c1", "c2">>, insights |-> <<"i1">>, trends |-> <<>>],
      [clusters |-> <<>>, insights |-> <<"analysis failed">>, trends |-> <<>>] }

\* overall scores the critic can report, in tenths
CriticScores == {50, 65, 70, 78}

Feedbacks == {"", "add quantitative data"}

\* the text of the n-th report the writer produced in this run; the writer can
\* also come back with an empty report (its LLM call failed softly)
ReportText(n) == <<"report 1", "report 2", "report 3", "report 4">>[n]

\* QualityCritic.execute: overall score, uniform dimension scores, feedback
\* text, and pass computed from the overall score
CriticOutput(overall, fb) ==
    [scores |-> [k \in SCORE_KEYS |-> overall], overall_score |-> overall,
     feedback |-> fb, pass |-> overall >= PASS_THRESHOLD]

\* the initial value of run's local `review`
InitialReview ==
    [overall_score |-> 0, scores |-> EmptyDict, pass |-> FALSE, feedback |-> ""]

\* the locals of run() as set before Phase 1
RunLocals(t) ==
    /\ topic' = NormalizeTopic(t)
    /\ research_data' = EmptyDict
    /\ analysis' = EmptyDict
    /\ draft' = [report |-> ""]
    /\ review' = InitialReview
    /\ revision_count' = 0
    /\ round_num' = 0
    /\ feedback' = "None"
    /\ previous_report' = ""
    /\ writer_input' = EmptyDict
    /\ calls' = [s \in Stages |-> 0]
    /\ raised_in' = {}
    /\ run_ret' = [raised |-> FALSE, value |-> EmptyDict]

\* ResearchCoordinator.run(topic) is entered
RunStart(t) ==
    /\ pc \in {"idle", "done"}
    /\ RunLocals(t)
    /\ pc' = "collect"

\* Phase 1, researcher.execute returns
CollectReturns(out) ==
    /\ pc = "collect"
    /\ research_data' = out
    /\ calls' = [calls EXCEPT !["collect"] = @ + 1]
    /\ pc' = "analyze"
    /\ UNCHANGED <<topic, analysis, draft, review, revision_count, round_num,
                   feedback, previous_report, writer_input, raised_in, run_ret>>

\* Phase 1, researcher.execute raises and the except clause logs it
CollectRaises ==
    /\ pc = "collect"
    /\ calls' = [calls EXCEPT !["collect"] = @ + 1]
    /\ raised_in' = raised_in \cup {"collect"}
    /\ pc' = "analyze"
    /\ UNCHANGED <<topic, research_data, analysis, draft, review, revision_count,
                   round_num, feedback, previous_report, writer_input, run_ret>>

\* Phase 2, analyzer.execute returns
AnalyzeReturns(out) ==
    /\ pc = "analyze"
    /\ analysis' = out
    /\ calls' = [calls EXCEPT !["analyze"] = @ + 1]
    /\ pc' = "write"
    /\ UNCHANGED <<topic, research_data, draft, review, revision_count, round_num,
                   feedback, previous_report, writer_input, raised_in, run_ret>>

\* Phase 2, analyzer.execute raises and the except clause logs it
AnalyzeRaises ==
    /\ pc = "analyze"
    /\ calls' = [calls EXCEPT !["analyze"] = @ + 1]
    /\ raised_in' = raised_in \cup {"analyze"}
    /\ pc' = "write"
    /\ UNCHANGED <<topic, research_data, analysis, draft, review, revision_count,
                   round_num, feedback, previous_report, writer_input, run_ret>>

\* the writer_input dict built at the top of a round
WriterInput ==
    IF feedback \notin {"None", ""}
    THEN [topic |-> topic, analysis |-> analysis,
          sources |-> Get(research_data, "source_urls", <<>>),
          feedback |-> feedback, report |-> previous_report]
    ELSE [topic |-> topic, analysis |-> analysis,
          sources |-> Get(research_data, "source_urls", <<>>)]

\* ReportWriter.execute's choice between _revise_report and
\* _write_initial_report: `if feedback and previous_report`
HasRevision(input_data) ==
    /\ Get(input_data, "feedback", "") # ""
    /\ Get(input_data, "report", "") # ""

\* Phase 3, writer.execute returns a draft
WriteReturns(empty) ==
    /\ pc = "write"
    /\ writer_input' = WriterInput
    /\ calls' = [calls EXCEPT !["write"] = @ + 1]
    /\ draft' = [report |-> IF empty THEN "" ELSE ReportText(calls["write"] + 1),
                 has_revision |-> HasRevision(WriterInput)]
    /\ pc' = "critique"
    /\ UNCHANGED <<topic, research_data, analysis, review, revision_count, round_num,
                   feedback, previous_report, raised_in, run_ret>>

\* Phase 3 without the except clause: the writer's exception leaves run()
WriteRaises_propagates ==
    /\ pc = "write"
    /\ writer_input' = WriterInput
    /\ calls' = [calls EXCEPT !["write"] = @ + 1]
    /\ raised_in' = raised_in \cup {"write"}
    /\ run_ret' = [raised |-> TRUE, value |-> EmptyDict]
    /\ pc' = "done"
    /\ UNCHANGED <<topic, research_data, analysis, draft, review, revision_count,
                   round_num, feedback, previous_report>>

\* Phase 3, writer.execute raises: logged, then break
WriteRaises ==
    /\ pc = "write"
    /\ writer_input' = WriterInput
    /\ calls' = [calls EXCEPT !["write"] = @ + 1]
    /\ raised_in' = raised_in \cup {"write"}
    /\ pc' = "return"
    /\ UNCHANGED <<topic, research_data, analysis, draft, review, revision_count,
                   round_num, feedback, previous_report, run_ret>>

\* critic.execute returns and the revision bookkeeping runs before the pass test
CritiqueReturns_countsFirst(out) ==
    /\ pc = "critique"
    /\ calls' = [calls EXCEPT !["critique"] = @ + 1]
    /\ review' = out
    /\ revision_count' = revision_count + 1
    /\ IF Get(out, "pass", FALSE)
       THEN /\ pc' = "return"
            /\ UNCHANGED <<feedback, previous_report, round_num>>
       ELSE /\ feedback' = OrText(Get(out, "feedback", ""), "")
            /\ previous_report' = OrText(Get(draft, "report", ""), "")
            /\ round_num' = round_num + 1
            /\ pc' = IF round_num + 1 < MaxRevisionRounds + 1 THEN "write" ELSE "return"
    /\ UNCHANGED <<topic, research_data, analysis, draft, writer_input, raised_in, run_ret>>

\* critic.execute returns and the loop goes on without the break on pass
CritiqueReturns_noBreak(out) ==
    /\ pc = "critique"
    /\ calls' = [calls EXCEPT !["critique"] = @ + 1]
    /\ review' = out
    /\ revision_count' = IF Get(out, "pass", FALSE) THEN revision_count
                         ELSE revision_count + 1
    /\ feedback' = OrText(Get(out, "feedback", ""), "")
    /\ previous_report' = OrText(Get(draft, "report", ""), "")
    /\ round_num' = round_num + 1
    /\ pc' = IF round_num + 1 < MaxRevisionRounds + 1 THEN "write" ELSE "return"
    /\ UNCHANGED <<topic, research_data, analysis, draft, writer_input, raised_in, run_ret>>

\* Phase 3, critic.execute returns a review; pass breaks, otherwise the
\* revision bookkeeping runs and the for loop advances
CritiqueReturns(out) ==
    /\ pc = "critique"
    /\ calls' = [calls EXCEPT !["critique"] = @ + 1]
    /\ review' = out
    /\ IF Get(out, "pass", FALSE)
       THEN /\ pc' = "return"
            /\ UNCHANGED <<revision_count, feedback, previous_report, round_num>>
       ELSE /\ revision_count' = revision_count + 1
            /\ feedback' = OrText(Get(out, "feedback", ""), "")
            /\ previous_report' = OrText(Get(draft, "report", ""), "")
            /\ round_num' = round_num + 1
            /\ pc' = IF round_num + 1 < MaxRevisionRounds + 1 THEN "write" ELSE "return"
    /\ UNCHANGED <<topic, research_data, analysis, draft, writer_input, raised_in, run_ret>>

\* Phase 3, critic.execute raises: logged, then break
CritiqueRaises ==
    /\ pc = "critique"
    /\ calls' = [calls EXCEPT !["critique"] = @ + 1]
    /\ raised_in' = raised_in \cup {"critique"}
    /\ pc' = "return"
    /\ UNCHANGED <<topic, research_data, analysis, draft, review, revision_count,
                   round_num, feedback, previous_report, writer_input, run_ret>>

\* the dict run() returns
RunResult ==
    [topic |-> topic,
     report |-> OrText(Get(draft, "report", ""), ""),
     score |-> Get(review, "overall_score", 0),
     scores |-> Get(review, "scores", EmptyDict),
     revision_count |-> revision_count,
     research_summary |->
        [queries_used |-> Get(research_data, "queries_used", <<>>),
         source_count |-> Get(research_data, "source_count", 0),
         insights_count |-> Len(Get(analysis, "insights", <<>>))]]

\* the return statement of run()
RunReturn ==
    /\ pc = "return"
    /\ run_ret' = [raised |-> FALSE, value |-> RunResult]
    /\ pc' = "done"
    /\ UNCHANGED <<topic, research_data, analysis, draft, review, revision_count,
                   round_num, feedback, previous_report, writer_input, calls, raised_in>>

\* state before the first run() (the locals do not exist yet)
CoordInit ==
    /\ pc = "idle"
    /\ topic = ""
    /\ research_data = EmptyDict
    /\ analysis = EmptyDict
    /\ draft = [report |-> ""]
    /\ review = InitialReview
    /\ revision_count = 0
    /\ round_num = 0
    /\ feedback = "None"
    /\ previous_report = ""
    /\ writer_input = EmptyDict
    /\ calls = [s \in Stages |-> 0]
    /\ raised_in = {}
    /\ run_ret = [raised |-> FALSE, value |-> EmptyDict]

RunStartStep == \E t \in Topics : RunStart(t)

CollectReturnsStep == \E out \in ResearchOutputs : CollectReturns(out)

AnalyzeReturnsStep == \E out \in AnalysisOutputs : AnalyzeReturns(out)

WriteReturnsStep == \E empty \in BOOLEAN : WriteReturns(empty)

CritiqueReturnsStep ==
    \E overall \in CriticScores, fb \in Feedbacks : CritiqueReturns(CriticOutput(overall, fb))

CoordNext ==
    \/ RunStartStep
    \/ CollectReturnsStep
    \/ CollectRaises
    \/ AnalyzeReturnsStep
    \/ AnalyzeRaises
    \/ WriteReturnsStep
    \/ WriteRaises
    \/ CritiqueReturnsStep
    \/ CritiqueRaises
    \/ RunReturn

(***************************************************************************)
(* QualityCritic                                                           *)
(* Values of the LLM's JSON answer and the scores computed from them are   *)
(* held as hundredths (6.96 is 696) so that round(x, 1) has something to   *)
(* round.                                                                  *)
(***************************************************************************)

\* a score of the tenths scale on the hundredths scale
Hundredths(tenths) == 10 * tenths

\* a JSON value found under a score key: absent or null, something float()
\* rejects, or a number
RawValue(kind, v) == [kind |-> kind, v |-> v]

\* the values the answers are built from: below the range, just under and at
\* the pass mark, above the range
ScoreValues ==
    { RawValue("missing", 0), RawValue("text", 0), RawValue("number", 0),
      RawValue("number", 696), RawValue("number", 1200) }

OverallValues ==
    { RawValue("missing", 0), RawValue("text", 0), RawValue("number", 696),
      RawValue("number", 700), RawValue("number", 1200) }

\* data["feedback"]: a str, a dict with one filled key, or anything else
FeedbackValues == {"str", "dict", "other"}

\* what _call_llm_json hands back: {} on any failure, otherwise the parsed
\* object; has_scores tells whether data["scores"] is a dict
CriticAnswers ==
    { [kind |-> "empty", has_scores |-> FALSE,
       scores |-> [k \in SCORE_KEYS |-> RawValue("missing", 0)],
       overall |-> RawValue("missing", 0), feedback |-> "other"] }
    \cup
    { [kind |-> "object", has_scores |-> hs, scores |-> sc, overall |-> ov,
       feedback |-> fb] :
        hs \in BOOLEAN, sc \in [SCORE_KEYS -> ScoreValues], ov \in OverallValues,
        fb \in FeedbackValues }

\* float(val) if val is not None else _DEFAULT_SCORE, with the except clause
ParseScore(raw) ==
    IF raw.kind = "number" THEN raw.v ELSE Hundredths(DEFAULT_SCORE)

\* max(1.0, min(10.0, x))
Clamp(x) == IF x < 100 THEN 100 ELSE IF x > 1000 THEN 1000 ELSE x

\* sum(scores.values())
RECURSIVE SumOver(_, _)
SumOver(scores, keys) ==
    IF keys = {} THEN 0
    ELSE LET k == CHOOSE x \in keys : TRUE IN scores[k] + SumOver(scores, keys \ {k})

\* round(num / den, 1) that cuts the extra digits off
Round1_truncates(num, den) == 10 * (num \div (10 * den))

\* round(num / den, 1) for num / den in hundredths: the nearest multiple of
\* 0.1 (the values used never lie halfway between two)
Round1(num, den) == 10 * ((2 * num + 10 * den) \div (20 * den))

\* the feedback text _evaluate_report builds
FeedbackText(raw) ==
    CASE raw = "str" -> "feedback text"
      [] raw = "dict" -> "- **completeness**: feedback text"
      [] OTHER -> "no specific feedback"

\* QualityCritic._default_evaluation_result
DefaultEvaluationResult ==
    [scores |-> [k \in SCORE_KEYS |-> Hundredths(DEFAULT_SCORE)],
     overall_score |-> Hundredths(DEFAULT_SCORE),
     feedback |-> "evaluation unavailable"]

\* QualityCritic._evaluate_report
EvaluateReport(data) ==
    IF data.kind = "empty" \/ ~data.has_scores THEN DefaultEvaluationResult
    ELSE LET scores == [k \in SCORE_KEYS |-> Clamp(ParseScore(data.scores[k]))]
             mean == Round1(SumOver(scores, SCORE_KEYS), Cardinality(SCORE_KEYS))
         IN  [scores |-> scores,
              overall_score |-> IF data.overall.kind = "number"
                                THEN Round1(data.overall.v, 1)
                                ELSE mean,
              feedback |-> FeedbackText(data.feedback)]

\* QualityCritic.execute
CriticExecute(data) ==
    LET result == EvaluateReport(data) IN
    [scores |-> result.scores,
     overall_score |-> result.overall_score,
     feedback |-> result.feedback,
     pass |-> result.overall_score >= Hundredths(PASS_THRESHOLD)]

\* critic.execute called with the LLM answering `data`
CriticInit ==
    critic_ret = [op |-> "init",
                  data |-> [kind |-> "empty", has_scores |-> FALSE,
                            scores |-> [k \in SCORE_KEYS |-> RawValue("missing", 0)],
                            overall |-> RawValue("missing", 0), feedback |-> "other"],
                  value |-> [scores |-> [k \in SCORE_KEYS |-> 0], overall_score |-> 0,
                             feedback |-> "", pass |-> FALSE]]

\* one critic.execute call per behaviour: the result depends on the LLM's
\* answer alone
CriticExecuteStep ==
    /\ critic_ret.op = "init"
    /\ \E data \in CriticAnswers :
        critic_ret' = [op |-> "execute", data |-> data, value |-> CriticExecute(data)]

CriticNext ==
    /\ CriticExecuteStep
    /\ UNCHANGED <<plannerVars, coordVars, memVars, embVars, mergeVars, searchVars>>

(***************************************************************************)
(* EmbeddingGenerator and MemoryManager                                    *)
(***************************************************************************)

\* number of create_embedding requests one generator serves in the model
MaxRequests == 4

\* number of document ids uuid4 hands out in the model
MaxDocs == 2

\* _call_api_with_retry's max_retries
MaxRetries == 3

\* check_duplicate's default threshold (0.95), in hundredths
DuplicateThreshold == 95

\* texts to store; "" is the empty text.  Neighbouring texts are near
\* duplicates: their cosine distance is 0.05.
Texts == {"t1", "t2", "t3"}

EmptyText == ""

\* a query whose vector points away from every stored text (cosine distance
\* above 1.0)
OppositeQuery == "opposite"

\* where a text's vector lies
Angle(text) == CASE text = "t1" -> 1 [] text = "t2" -> 2 [] text = "t3" -> 3
                 [] text = OppositeQuery -> 27

\* the provider's (deterministic) vector for a text
Embedding(text) == <<"vec", Angle(text)>>

\* cosine distance between two vectors, in hundredths
Distance(u, v) == IF u[2] >= v[2] THEN 5 * (u[2] - v[2]) ELSE 5 * (v[2] - u[2])

\* similarity = 1.0 - distance
Similarity(distance) == 100 - distance

\* len(text)
TextLength(text) == 10 + Angle(text)

\* timestamps: a caller-supplied old one, datetime.now() at insertion, and
\* datetime.now() at a later sweep
OldStamp == 60

\* the empty timestamp text ""
NoStamp == 0

StampNow == 99

SweepNow == 100

\* how _call_api_with_retry ends: success on attempt 1..MaxRetries, or 0 when
\* every attempt fails
ProviderOutcomes == 0..MaxRetries

\* a backoff that waits base_delay before every retry
Backoff_fixed(failures) == [attempt \in 1..failures |-> 1]

\* the time.sleep(delay) calls after `failures` failed attempts that are
\* followed by a retry, in seconds: delay = base_delay * (2 ** attempt)
Backoff(failures) == [attempt \in 1..failures |-> 2 ^ (attempt - 1)]

\* EmbeddingGenerator._call_api_with_retry: api_call_count grows by the
\* attempts made; raises after MaxRetries failures
CallApiWithRetry(gen, text, outcome) ==
    IF outcome = 0
    THEN [gen |-> [gen EXCEPT !.api_call_count = @ + MaxRetries],
          raised |-> TRUE, value |-> <<>>, slept |-> Backoff(MaxRetries - 1)]
    ELSE [gen |-> [gen EXCEPT !.api_call_count = @ + outcome],
          raised |-> FALSE, value |-> Embedding(text), slept |-> Backoff(outcome - 1)]

\* create_embedding that goes to the provider without looking into the cache
CreateEmbedding_alwaysCalls(gen, text, outcome) ==
    IF text = EmptyText
    THEN [gen |-> gen, raised |-> TRUE, value |-> <<>>, slept |-> <<>>]
    ELSE LET g1 == [gen EXCEPT !.total_requests = @ + 1]
             api == CallApiWithRetry(g1, text, outcome) IN
         IF api.raised
         THEN api
         ELSE [gen |-> [api.gen EXCEPT
                           !.cache = [t \in DOMAIN @ \cup {text} |->
                                         IF t = text THEN api.value ELSE @[t]],
                           !.embedding_count = @ + 1],
               raised |-> FALSE, value |-> api.value, slept |-> api.slept]

\* EmbeddingGenerator.create_embedding
CreateEmbedding(gen, text, outcome) ==
    IF text = EmptyText
    THEN [gen |-> gen, raised |-> TRUE, value |-> <<>>, slept |-> <<>>]
    ELSE LET g1 == [gen EXCEPT !.total_requests = @ + 1] IN
         IF text \in DOMAIN g1.cache
         THEN [gen |-> [g1 EXCEPT !.cache_hit_count = @ + 1, !.cache_hits = @ + 1],
               raised |-> FALSE, value |-> g1.cache[text], slept |-> <<>>]
         ELSE LET api == CallApiWithRetry(g1, text, outcome) IN
              IF api.raised
              THEN api
              ELSE [gen |-> [api.gen EXCEPT
                                !.cache = [t \in DOMAIN @ \cup {text} |->
                                              IF t = text THEN api.value ELSE @[t]],
                                !.embedding_count = @ + 1],
                    raised |-> FALSE, value |-> api.value, slept |-> api.slept]

\* EmbeddingGenerator.__init__
NewGenerator ==
    [cache |-> [t \in {} |-> <<>>], embedding_count |-> 0, api_call_count |-> 0,
     cache_hit_count |-> 0, cache_hits |-> 0, total_requests |-> 0]

\* collection.query(n_results=1): the ids the store may return as the single
\* nearest neighbour of vec (equidistant documents come in either order);
\* 0 when the collection is empty
NearestChoices(coll, vec) ==
    IF DOMAIN coll = {} THEN {0}
    ELSE { i \in DOMAIN coll :
            \A j \in DOMAIN coll :
                Distance(vec, coll[i].embedding) <= Distance(vec, coll[j].embedding) }

\* MemoryManager.search_memory(query, top_k=1): nn is the store's answer,
\* query_ok tells whether collection.query returned
SearchMemory(gen, coll, query, outcome, query_ok, nn) ==
    IF query = EmptyText
    THEN [gen |-> gen, raised |-> TRUE, results |-> <<>>]
    ELSE LET e == CreateEmbedding(gen, query, outcome) IN
         IF e.raised \/ ~query_ok
         THEN [gen |-> e.gen, raised |-> TRUE, results |-> <<>>]
         ELSE [gen |-> e.gen, raised |-> FALSE,
               results |-> IF nn = 0 THEN <<>>
                           ELSE << [id |-> nn, text |-> coll[nn].text,
                                    metadata |-> coll[nn].metadata,
                                    similarity |->
                                       Similarity(Distance(e.value, coll[nn].embedding))] >>]

\* check_duplicate with a strict comparison against the threshold
CheckDuplicate_strict(gen, coll, text, threshold, outcome, query_ok, nn) ==
    IF text = EmptyText
    THEN [gen |-> gen, found |-> FALSE, id |-> 0, hit |-> EmptyDict]
    ELSE LET s == SearchMemory(gen, coll, text, outcome, query_ok, nn) IN
         IF s.raised \/ s.results = <<>>
         THEN [gen |-> s.gen, found |-> FALSE, id |-> 0, hit |-> EmptyDict]
         ELSE IF s.results[1].similarity > threshold
         THEN [gen |-> s.gen, found |-> TRUE, id |-> s.results[1].id,
               hit |-> s.results[1]]
         ELSE [gen |-> s.gen, found |-> FALSE, id |-> 0, hit |-> EmptyDict]

\* MemoryManager.check_duplicate: any exception of the lookup is logged and
\* answered with None
CheckDuplicate(gen, coll, text, threshold, outcome, query_ok, nn) ==
    IF text = EmptyText
    THEN [gen |-> gen, found |-> FALSE, id |-> 0, hit |-> EmptyDict]
    ELSE LET s == SearchMemory(gen, coll, text, outcome, query_ok, nn) IN
         IF s.raised \/ s.results = <<>>
         THEN [gen |-> s.gen, found |-> FALSE, id |-> 0, hit |-> EmptyDict]
         ELSE IF s.results[1].similarity >= threshold
         THEN [gen |-> s.gen, found |-> TRUE, id |-> s.results[1].id,
               hit |-> s.results[1]]
         ELSE [gen |-> s.gen, found |-> FALSE, id |-> 0, hit |-> EmptyDict]

\* the metadata arguments callers pass to add_to_memory; EmptyDict is None
MetadataArgs == { EmptyDict, [timestamp |-> OldStamp, source |-> "web_search"] }

\* the same, and a metadata dict whose timestamp is the empty text
StoreMetadataArgs == MetadataArgs \cup { [timestamp |-> NoStamp] }

\* add_to_memory step 5: timestamp kept or set, text_length and source written
StampMetadata(metadata, text) ==
    [timestamp |-> Get(metadata, "timestamp", StampNow),
     text_length |-> TextLength(text),
     source |-> Get(metadata, "source", "user_input")]
    @@ metadata

\* the record of one MemoryManager call; check is the call's flag argument
\* (check_duplicate, keep_important)
MemRet(op, text, check, raised, value, coll) ==
    [op |-> op, text |-> text, check |-> check, raised |-> raised, value |-> value,
     count_before |-> Cardinality(DOMAIN coll)]

\* MemoryManager.add_to_memory(text, metadata, check_duplicate=check) with a
\* generated document id.  out1/query_ok/nn are the outcomes inside
\* check_duplicate, out2/add_ok those of the embedding and collection.add.
AddToMemory(text, metadata, check, out1, query_ok, nn, out2, add_ok) ==
    LET gen == embedding_generator
        dup == IF check
               THEN CheckDuplicate(gen, collection, text, DuplicateThreshold,
                                   out1, query_ok, nn)
               ELSE [gen |-> gen, found |-> FALSE, id |-> 0]
        e   == CreateEmbedding(dup.gen, text, out2)
        doc == [text |-> text, embedding |-> e.value,
                metadata |-> StampMetadata(metadata, text)]
    IN
    /\ gen.total_requests + 2 <= MaxRequests
    /\ next_uuid <= MaxDocs
    /\ IF text = EmptyText
       THEN /\ mem_ret' = MemRet("add", text, check, TRUE, 0, collection)
            /\ UNCHANGED <<collection, embedding_generator, next_uuid>>
       ELSE IF dup.found
       THEN /\ mem_ret' = MemRet("add", text, check, FALSE, dup.id, collection)
            /\ embedding_generator' = dup.gen
            /\ UNCHANGED <<collection, next_uuid>>
       ELSE /\ next_uuid' = next_uuid + 1
            /\ embedding_generator' = e.gen
            /\ IF e.raised \/ ~add_ok
               THEN /\ mem_ret' = MemRet("add", text, check, TRUE, 0, collection)
                    /\ UNCHANGED collection
               ELSE /\ mem_ret' = MemRet("add", text, check, FALSE, next_uuid, collection)
                    /\ collection' = (next_uuid :> doc) @@ collection

\* MemoryManager.delete_memory(document_id); ok is FALSE when collection.get
\* or collection.delete raises
DeleteMemory(document_id, ok) ==
    /\ IF ok /\ document_id \in DOMAIN collection
       THEN /\ collection' = [i \in DOMAIN collection \ {document_id} |-> collection[i]]
            /\ mem_ret' = MemRet("delete", EmptyText, FALSE, FALSE, 1, collection)
       ELSE /\ UNCHANGED collection
            /\ mem_ret' = MemRet("delete", EmptyText, FALSE, FALSE, 0, collection)
    /\ UNCHANGED <<embedding_generator, next_uuid>>

\* MemoryManager.clear_all_memory()
ClearAllMemory ==
    /\ collection' = [i \in {} |-> 0]
    /\ mem_ret' = MemRet("clear", EmptyText, FALSE, FALSE,
                         Cardinality(DOMAIN collection), collection)
    /\ UNCHANGED <<embedding_generator, next_uuid>>

\* cutoff_date of cleanup_old_memories
CutoffDate(days_old) == SweepNow - days_old

\* a sweep that does not look at the important flag
SweepTargets_ignoresImportant(coll, days_old, keep_important) ==
    { i \in DOMAIN coll :
        /\ Get(coll[i].metadata, "timestamp", NoStamp) # NoStamp
        /\ coll[i].metadata.timestamp < CutoffDate(days_old) }

\* the documents cleanup_old_memories tries to delete
SweepTargets(coll, days_old, keep_important) ==
    { i \in DOMAIN coll :
        /\ Get(coll[i].metadata, "timestamp", NoStamp) # NoStamp
        /\ coll[i].metadata.timestamp < CutoffDate(days_old)
        /\ ~(keep_important /\ Get(coll[i].metadata, "important", FALSE)) }

\* MemoryManager.cleanup_old_memories(days_old, keep_important); failing is
\* the set of documents whose delete_memory call returns False
CleanupOldMemories(days_old, keep_important, failing) ==
    LET targets == SweepTargets(collection, days_old, keep_important)
        gone    == targets \ failing
    IN
    /\ failing \subseteq targets
    /\ collection' = [i \in DOMAIN collection \ gone |-> collection[i]]
    /\ mem_ret' = MemRet("cleanup", EmptyText, keep_important, FALSE,
                         [deleted |-> Cardinality(gone),
                          kept |-> Cardinality(DOMAIN collection \ targets),
                          cutoff_date |-> CutoffDate(days_old)],
                         collection)
    /\ UNCHANGED <<embedding_generator, next_uuid>>

\* MemoryManager.mark_as_important(document_id): get, re-embed, delete, add.
\* get_ok/delete_ok/add_ok tell whether the store calls return; a raise
\* anywhere makes the method return False.
MarkAsImportant(document_id, get_ok, outcome, delete_ok, add_ok) ==
    LET gen == embedding_generator IN
    /\ gen.total_requests + 1 <= MaxRequests
    /\ UNCHANGED next_uuid
    /\ IF ~get_ok \/ document_id \notin DOMAIN collection
       THEN /\ mem_ret' = MemRet("mark", EmptyText, FALSE, FALSE, 0, collection)
            /\ UNCHANGED <<collection, embedding_generator>>
       ELSE LET old == collection[document_id]
                e   == CreateEmbedding(gen, old.text, outcome)
                doc == [text |-> old.text, embedding |-> e.value,
                        metadata |-> [important |-> TRUE] @@ old.metadata]
                rest == [i \in DOMAIN collection \ {document_id} |-> collection[i]]
            IN
            /\ embedding_generator' = e.gen
            /\ IF e.raised \/ ~delete_ok
               THEN /\ UNCHANGED collection
                    /\ mem_ret' = MemRet("mark", EmptyText, FALSE, FALSE, 0, collection)
               ELSE IF ~add_ok
               THEN /\ collection' = rest
                    /\ mem_ret' = MemRet("mark", EmptyText, FALSE, FALSE, 0, collection)
               ELSE /\ collection' = (document_id :> doc) @@ rest
                    /\ mem_ret' = MemRet("mark", EmptyText, FALSE, FALSE, 1, collection)

\* MemoryManager.__init__ on an empty persist directory
MemInit ==
    /\ collection = [i \in {} |-> 0]
    /\ embedding_generator = NewGenerator
    /\ next_uuid = 1
    /\ mem_ret = MemRet("init", EmptyText, FALSE, FALSE, 0, [i \in {} |-> 0])

\* the provider outcomes that make a difference for embedding text: none when
\* the text is cached
OutcomesFor(text) ==
    IF text = EmptyText \/ text \in DOMAIN embedding_generator.cache
    THEN {1} ELSE ProviderOutcomes

\* the add_to_memory calls made with check_duplicate=check
AddToMemoryCall(check) ==
    \E text \in Texts \cup {EmptyText}, metadata \in MetadataArgs :
        \E out1 \in (IF check THEN OutcomesFor(text) ELSE {1}),
           query_ok \in (IF check /\ text # EmptyText THEN BOOLEAN ELSE {TRUE}),
           nn \in (IF check /\ text # EmptyText
                   THEN NearestChoices(collection, Embedding(text)) ELSE {0}),
           out2 \in OutcomesFor(text),
           add_ok \in (IF text # EmptyText THEN BOOLEAN ELSE {TRUE}) :
            AddToMemory(text, metadata, check, out1, query_ok, nn, out2, add_ok)

AddToMemoryStep == \E check \in BOOLEAN : AddToMemoryCall(check)

AddCheckedStep == AddToMemoryCall(TRUE)

DeleteMemoryStep ==
    \E document_id \in 1..MaxDocs, ok \in BOOLEAN : DeleteMemory(document_id, ok)

CleanupOldMemoriesStep ==
    \E days_old \in {0, 30}, keep_important \in BOOLEAN :
        \E failing \in SUBSET SweepTargets(collection, days_old, keep_important) :
            CleanupOldMemories(days_old, keep_important, failing)

MarkAsImportantStep ==
    \E document_id \in 1..MaxDocs, get_ok \in BOOLEAN :
        \E outcome \in (IF get_ok /\ document_id \in DOMAIN collection
                        THEN OutcomesFor(collection[document_id].text) ELSE {1}),
           delete_ok \in (IF get_ok /\ document_id \in DOMAIN collection
                          THEN BOOLEAN ELSE {TRUE}),
           add_ok \in (IF get_ok /\ document_id \in DOMAIN collection
                       THEN BOOLEAN ELSE {TRUE}) :
            MarkAsImportant(document_id, get_ok, outcome, delete_ok, add_ok)

\* the thresholds callers pass to check_duplicate, in hundredths
Thresholds == {95, 100}

\* a caller invokes check_duplicate(text, threshold); the method never raises
CheckDuplicateCall(text, threshold, outcome, query_ok, nn) ==
    LET d == CheckDuplicate(embedding_generator, collection, text, threshold,
                            outcome, query_ok, nn) IN
    /\ embedding_generator.total_requests + 1 <= MaxRequests
    /\ embedding_generator' = d.gen
    /\ mem_ret' = MemRet("check_duplicate", text, FALSE, FALSE,
                         [found |-> d.found, hit |-> d.hit, threshold |-> threshold],
                         collection)
    /\ UNCHANGED <<collection, next_uuid>>

\* the metadata filters callers pass to search_memory; EmptyDict is None
Filters == { EmptyDict, [source |-> "web_search"] }

\* the store's `where` clause: every key of the filter is present with that value
MatchesFilter(metadata, where) ==
    \A k \in DOMAIN where : k \in DOMAIN metadata /\ metadata[k] = where[k]

\* collection.query(query_embeddings=[vec], n_results, where): the id lists the
\* store may answer with: the n_results nearest matching documents, nearest
\* first (equidistant documents in either order)
QueryAnswers(coll, vec, n_results, where) ==
    LET M == { i \in DOMAIN coll : MatchesFilter(coll[i].metadata, where) }
        n == IF n_results <= Cardinality(M) THEN n_results ELSE Cardinality(M)
        D(i) == Distance(vec, coll[i].embedding)
    IN { a \in [1..n -> M] :
            /\ \A j, k \in 1..n : j < k => (a[j] # a[k] /\ D(a[j]) <= D(a[k]))
            /\ \A i \in M : (\A j \in 1..n : a[j] # i)
                            => \A j \in 1..n : D(a[j]) <= D(i) }

\* MemoryManager.search_memory(query, top_k, filter_dict): answer is the id
\* list of the store's reply, query_ok tells whether collection.query returned
SearchMemoryTopK(gen, coll, query, top_k, filter_dict, outcome, query_ok, answer) ==
    IF query = EmptyText
    THEN [gen |-> gen, raised |-> TRUE, results |-> <<>>]
    ELSE LET e == CreateEmbedding(gen, query, outcome) IN
         IF e.raised \/ ~query_ok
         THEN [gen |-> e.gen, raised |-> TRUE, results |-> <<>>]
         ELSE [gen |-> e.gen, raised |-> FALSE,
               results |->
                  [i \in DOMAIN answer |->
                      [id |-> answer[i], text |-> coll[answer[i]].text,
                       metadata |-> coll[answer[i]].metadata,
                       similarity |->
                          Similarity(Distance(e.value, coll[answer[i]].embedding))]]]

\* a caller invokes search_memory(query, top_k, filter_dict)
SearchMemoryCall(query, top_k, filter_dict, outcome, query_ok, answer) ==
    LET r == SearchMemoryTopK(embedding_generator, collection, query, top_k,
                              filter_dict, outcome, query_ok, answer) IN
    /\ embedding_generator.total_requests + 1 <= MaxRequests
    /\ embedding_generator' = r.gen
    /\ mem_ret' = MemRet("search", query, FALSE, r.raised,
                         [results |-> r.results, top_k |-> top_k,
                          filter_dict |-> filter_dict],
                         collection)
    /\ UNCHANGED <<collection, next_uuid>>

\* the provider outcomes told apart by a lookup: every attempt fails, or the
\* first one succeeds
LookupOutcomesFor(text) == OutcomesFor(text) \cap {0, 1}

\* add_to_memory(text, metadata, check_duplicate=False) calls that go through
StoreStep ==
    \E text \in Texts, metadata \in MetadataArgs :
        AddToMemory(text, metadata, FALSE, 1, TRUE, 0, 1, TRUE)

\* the same calls, some of them with an empty timestamp text
StoreAnyStampStep ==
    \E text \in Texts, metadata \in StoreMetadataArgs :
        AddToMemory(text, metadata, FALSE, 1, TRUE, 0, 1, TRUE)

CheckDuplicateStep ==
    \E text \in Texts \cup {EmptyText}, threshold \in Thresholds :
        \E outcome \in LookupOutcomesFor(text),
           query_ok \in (IF text # EmptyText THEN BOOLEAN ELSE {TRUE}),
           nn \in (IF text # EmptyText
                   THEN NearestChoices(collection, Embedding(text)) ELSE {0}) :
            CheckDuplicateCall(text, threshold, outcome, query_ok, nn)

SearchMemoryStep ==
    \E query \in Texts \cup {EmptyText, OppositeQuery}, top_k \in {1, MaxDocs},
       filter_dict \in Filters :
        \E outcome \in LookupOutcomesFor(query),
           query_ok \in (IF query # EmptyText THEN BOOLEAN ELSE {TRUE}) :
            \E answer \in (IF query # EmptyText /\ query_ok
                           THEN QueryAnswers(collection, Embedding(query), top_k,
                                             filter_dict)
                           ELSE {<<>>}) :
                SearchMemoryCall(query, top_k, filter_dict, outcome, query_ok, answer)

\* a caller that stores texts and looks them up again
MemQueryNext ==
    /\ \/ StoreStep
       \/ CheckDuplicateStep
       \/ SearchMemoryStep
    /\ UNCHANGED <<plannerVars, coordVars, embVars, mergeVars, criticVars, searchVars>>

\* a caller that stores texts, flags some and sweeps
SweepNext ==
    /\ \/ StoreAnyStampStep
       \/ MarkAsImportantStep
       \/ CleanupOldMemoriesStep
    /\ UNCHANGED <<plannerVars, coordVars, embVars, mergeVars, criticVars, searchVars>>

MemNext ==
    \/ AddToMemoryStep
    \/ DeleteMemoryStep
    \/ ClearAllMemory
    \/ CleanupOldMemoriesStep
    \/ MarkAsImportantStep

\* longest texts list handed to create_embeddings in the model
MaxBatch == 2

\* the texts lists callers hand to create_embeddings: the empty list, and
\* lists of two distinct texts and the empty text, repetitions included
TextLists ==
    UNION { [1..n -> {"t1", "t2", EmptyText}] : n \in 0..MaxBatch }

\* index of the first empty text of the list, Len + 1 when there is none
FirstEmpty(texts) ==
    IF \E i \in DOMAIN texts : texts[i] = EmptyText
    THEN CHOOSE i \in DOMAIN texts :
            /\ texts[i] = EmptyText
            /\ \A j \in DOMAIN texts : texts[j] = EmptyText => i <= j
    ELSE Len(texts) + 1

\* uncached_indices: the positions whose text is not in the cache, ascending
UncachedIndices(texts, cache) ==
    SelectSeq([i \in 1..Len(texts) |-> i], LAMBDA i : texts[i] \notin DOMAIN cache)

\* EmbeddingGenerator._call_batch_api_with_retry: one request per attempt for
\* the whole list; the provider answers with one vector per input, in order
CallBatchApiWithRetry(gen, texts, outcome) ==
    IF outcome = 0
    THEN [gen |-> [gen EXCEPT !.api_call_count = @ + MaxRetries],
          raised |-> TRUE, value |-> <<>>, slept |-> Backoff(MaxRetries - 1)]
    ELSE [gen |-> [gen EXCEPT !.api_call_count = @ + outcome],
          raised |-> FALSE, value |-> [k \in DOMAIN texts |-> Embedding(texts[k])],
          slept |-> Backoff(outcome - 1)]

\* a merge that lists the cached vectors first and the fetched ones after them
MergeBack_cachedFirst(texts, cache, uncached_indices, embeddings) ==
    LET cached == SelectSeq([i \in 1..Len(texts) |-> i],
                            LAMBDA i : texts[i] \in DOMAIN cache)
    IN [k \in DOMAIN cached |-> cache[texts[cached[k]]]] \o embeddings

\* the `results` list of create_embeddings: cache entries at the cached
\* positions, and zip(uncached_indices, embeddings) at the others
MergeBack(texts, cache, uncached_indices, embeddings) ==
    [idx \in 1..Len(texts) |->
        IF texts[idx] \in DOMAIN cache
        THEN cache[texts[idx]]
        ELSE embeddings[CHOOSE k \in DOMAIN uncached_indices :
                            uncached_indices[k] = idx]]

\* EmbeddingGenerator.create_embeddings; sent is the list handed to the provider
CreateEmbeddings(gen, texts, outcome) ==
    LET stop == FirstEmpty(texts)
        hits == Cardinality({i \in DOMAIN texts :
                                i < stop /\ texts[i] \in DOMAIN gen.cache})
        g1   == [gen EXCEPT !.cache_hit_count = @ + hits]
        uncached_indices == UncachedIndices(texts, gen.cache)
        uncached_texts == [k \in DOMAIN uncached_indices |-> texts[uncached_indices[k]]]
    IN
    IF texts = <<>>
    THEN [gen |-> gen, raised |-> TRUE, value |-> <<>>, sent |-> <<>>, slept |-> <<>>]
    ELSE IF stop <= Len(texts)
    THEN [gen |-> g1, raised |-> TRUE, value |-> <<>>, sent |-> <<>>, slept |-> <<>>]
    ELSE IF uncached_texts = <<>>
    THEN [gen |-> g1, raised |-> FALSE,
          value |-> MergeBack(texts, gen.cache, uncached_indices, <<>>),
          sent |-> <<>>, slept |-> <<>>]
    ELSE LET api == CallBatchApiWithRetry(g1, uncached_texts, outcome) IN
         IF api.raised
         THEN [gen |-> api.gen, raised |-> TRUE, value |-> <<>>, sent |-> uncached_texts,
               slept |-> api.slept]
         ELSE [gen |-> [api.gen EXCEPT
                           !.cache = [t \in DOMAIN @ \cup {texts[i] : i \in DOMAIN texts} |->
                                         IF t \in DOMAIN @ THEN @[t] ELSE Embedding(t)],
                           !.embedding_count = @ + Len(uncached_texts)],
               raised |-> FALSE,
               value |-> MergeBack(texts, gen.cache, uncached_indices, api.value),
               sent |-> uncached_texts, slept |-> api.slept]

\* the record of one call made on the generator
EmbRet(op, texts, raised, value, sent, slept) ==
    [op |-> op, texts |-> texts, raised |-> raised, value |-> value, sent |-> sent,
     slept |-> slept]

\* provider attempts plus cache hits the generator has served
Served(gen) == gen.api_call_count + gen.cache_hit_count

\* a caller invokes embedding_generator.create_embedding(text)
CreateEmbeddingCall(text, outcome) ==
    LET e == CreateEmbedding(embedding_generator, text, outcome) IN
    /\ Served(embedding_generator) < MaxRequests
    /\ embedding_generator' = e.gen
    /\ emb_ret' = EmbRet("create_embedding", <<text>>, e.raised,
                         IF e.raised THEN <<>> ELSE <<e.value>>,
                         IF e.gen.api_call_count # embedding_generator.api_call_count
                         THEN <<text>> ELSE <<>>,
                         e.slept)

\* a caller invokes embedding_generator.create_embeddings(texts)
CreateEmbeddingsCall(texts, outcome) ==
    LET e == CreateEmbeddings(embedding_generator, texts, outcome) IN
    /\ Served(embedding_generator) < MaxRequests
    /\ embedding_generator' = e.gen
    /\ emb_ret' = EmbRet("create_embeddings", texts, e.raised, e.value, e.sent,
                         e.slept)

EmbInit == emb_ret = EmbRet("init", <<>>, FALSE, <<>>, <<>>, <<>>)

CreateEmbeddingStep ==
    \E text \in Texts \cup {EmptyText} : \E outcome \in OutcomesFor(text) :
        CreateEmbeddingCall(text, outcome)

CreateEmbeddingsStep ==
    \E texts \in TextLists :
        \E outcome \in (IF \A i \in DOMAIN texts : OutcomesFor(texts[i]) = {1}
                        THEN {1} ELSE ProviderOutcomes) :
            CreateEmbeddingsCall(texts, outcome)

EmbNext ==
    /\ \/ CreateEmbeddingStep
       \/ CreateEmbeddingsStep
    /\ UNCHANGED <<plannerVars, coordVars, collection, next_uuid, mem_ret, mergeVars, criticVars, searchVars>>

(***************************************************************************)
(* SearchAgent: merging memory and web results                             *)
(***************************************************************************)

\* longest result list either source contributes in the model
MaxResults == 2

\* contents are sequences of characters, so that `in` and len() are computed
ShortAB == <<"a", "b">>

ShortABC == <<"a", "b", "c">>

ShortXYZ == <<"x", "y", "z">>

\* a 51-character content, and a 52-character one that contains it
Long51 == [i \in 1..51 |-> "k"]

Long52 == Long51 \o <<"m">>

\* results of search_memory as search_with_memory passes them on; the last
\* one carries no similarity and no metadata
MemoryItems ==
    { [text |-> ShortAB, similarity |-> 90,
       metadata |-> [source |-> "web_search", query |-> "q", timestamp |-> StampNow]],
      [text |-> Long51, similarity |-> 70,
       metadata |-> [source |-> "user_input", timestamp |-> OldStamp]],
      [text |-> <<>>, similarity |-> 99, metadata |-> EmptyDict],
      [text |-> <<"k">>, similarity |-> 50, metadata |-> EmptyDict],
      [text |-> ShortXYZ] }

\* results of the web search provider; the last one carries no score
WebItems ==
    { [content |-> ShortABC, url |-> "u1", title |-> "t", score |-> 95],
      [content |-> Long52, url |-> "u2", title |-> "t", score |-> 50],
      [content |-> <<"q">>, url |-> "u3", title |-> "t", score |-> 90],
      [content |-> Long51, url |-> "u4", title |-> "t"] }

\* lists of at most MaxResults distinct-position items of S
ResultLists(S) == UNION { [1..n -> S] : n \in 0..MaxResults }

\* Python's `inner in outer` for two texts
Contains(outer, inner) ==
    \E off \in 0..(Len(outer) - Len(inner)) :
        \A i \in 1..Len(inner) : outer[off + i] = inner[i]

\* the inner test of _remove_duplicates without the stricter branch for long
\* texts
IsDuplicateOf_noLengthRule(content, seen) ==
    Contains(seen, content) \/ Contains(content, seen)

\* the inner test of _remove_duplicates: content duplicates an item seen before
IsDuplicateOf(content, seen) ==
    /\ Contains(seen, content) \/ Contains(content, seen)
    /\ IF Len(content) > 50 /\ Len(seen) > 50 THEN content = seen ELSE TRUE

\* SearchAgent._remove_duplicates; unique is the list kept so far
RECURSIVE RemoveDuplicates(_, _)
RemoveDuplicates(results, unique) ==
    IF results = <<>> THEN unique
    ELSE LET content == Get(Head(results), "content", <<>>) IN
         IF content = <<>>
            \/ \E k \in DOMAIN unique : IsDuplicateOf(content, unique[k].content)
         THEN RemoveDuplicates(Tail(results), unique)
         ELSE RemoveDuplicates(Tail(results), Append(unique, Head(results)))

\* a sort key that reads "score" whatever the origin
SortKey_scoreOnly(item) == Get(item, "score", 0)

\* sort_key of _merge_results
SortKey(item) ==
    IF Get(item, "source", "None") = "memory"
    THEN Get(item, "similarity", 0)
    ELSE Get(item, "score", 0)

\* sorted(merged, key=sort_key, reverse=True): descending and stable, so an
\* item goes behind every item already placed whose key is not smaller
RECURSIVE SortedReverse(_, _)
SortedReverse(items, placed) ==
    IF items = <<>> THEN placed
    ELSE LET x == Head(items)
             n == Cardinality({k \in DOMAIN placed : SortKey(placed[k]) >= SortKey(x)})
         IN SortedReverse(Tail(items),
                          SubSeq(placed, 1, n) \o <<x>> \o SubSeq(placed, n + 1, Len(placed)))

\* step [1] of _merge_results: a memory result with its provenance
FromMemory(r) ==
    [content |-> Get(r, "text", <<>>),
     source |-> "memory",
     similarity |-> Get(r, "similarity", 0),
     metadata |-> Get(r, "metadata", EmptyDict),
     provenance |->
        [retrieved_from |-> "memory",
         original_source |-> Get(Get(r, "metadata", EmptyDict), "source", "unknown"),
         original_query |-> Get(Get(r, "metadata", EmptyDict), "query", ""),
         stored_at |-> Get(Get(r, "metadata", EmptyDict), "timestamp", 0),
         confidence |-> Get(r, "similarity", 0)]]

\* step [2] of _merge_results: a web result with its provenance
FromWeb(r) ==
    [content |-> Get(r, "content", <<>>),
     source |-> "web",
     url |-> Get(r, "url", ""),
     title |-> Get(r, "title", ""),
     score |-> Get(r, "score", 0),
     provenance |->
        [retrieved_from |-> "web",
         url |-> Get(r, "url", ""),
         fetched_at |-> SweepNow,
         tavily_score |-> Get(r, "score", 0)]]

\* steps [1] and [2] of _merge_results: memory results first, then web results
Tagged(memory_results, web_results) ==
    [i \in DOMAIN memory_results |-> FromMemory(memory_results[i])]
    \o [i \in DOMAIN web_results |-> FromWeb(web_results[i])]

\* SearchAgent._merge_results(memory_results, web_results)
MergeResults(memory_results, web_results) ==
    SortedReverse(RemoveDuplicates(Tagged(memory_results, web_results), <<>>), <<>>)

\* a caller invokes _merge_results; the method reads nothing but its
\* arguments, so the calls of one behaviour are those made first
MergeInit ==
    merge_ret = [memory_results |-> <<>>, web_results |-> <<>>, unique |-> <<>>,
                 merged |-> <<>>]

MergeResultsStep ==
    /\ merge_ret.memory_results = <<>> /\ merge_ret.web_results = <<>>
    /\ \E memory_results \in ResultLists(MemoryItems),
          web_results \in ResultLists(WebItems) :
        merge_ret' = [memory_results |-> memory_results, web_results |-> web_results,
                      unique |-> RemoveDuplicates(Tagged(memory_results, web_results), <<>>),
                      merged |-> MergeResults(memory_results, web_results)]

MergeNext == MergeResultsStep /\ UNCHANGED <<plannerVars, coordVars, memVars, embVars, criticVars, searchVars>>

\* the memory hits and web hits search_with_memory is fed with
FoundInMemory ==
    { [text |-> ShortAB, similarity |-> 90,
       metadata |-> [source |-> "web_search", query |-> "q", timestamp |-> StampNow]],
      [text |-> Long51, similarity |-> 70,
       metadata |-> [source |-> "user_input", timestamp |-> OldStamp]] }

FoundOnWeb ==
    { [content |-> ShortABC, url |-> "u1", title |-> "t", score |-> 95],
      [content |-> <<>>, url |-> "u2", title |-> "t", score |-> 50] }

\* memory_threshold arguments: never search, the default region, always search
MemoryThresholds == {0, 1, MaxResults}

\* need_web_search with the comparison turned into <=
NeedWebSearch_atThreshold(memory_results, memory_threshold) ==
    Len(memory_results) <= memory_threshold

\* need_web_search = len(memory_results) < memory_threshold
NeedWebSearch(memory_results, memory_threshold) ==
    Len(memory_results) < memory_threshold

\* SearchAgent._save_to_memory: the texts add_to_memory is called with, in
\* order (results without content are skipped; an add_to_memory that raises
\* is logged and the loop goes on)
RECURSIVE SaveToMemory(_)
SaveToMemory(web_results) ==
    IF web_results = <<>> THEN <<>>
    ELSE LET text == Get(Head(web_results), "content", <<>>) IN
         IF text = <<>> THEN SaveToMemory(Tail(web_results))
         ELSE <<text>> \o SaveToMemory(Tail(web_results))

\* SearchAgent.search_with_memory(query, use_memory, save_to_memory,
\* memory_threshold).  has_memory: self.memory_manager is set; mem_ok and
\* mem_answer: whether search_memory returns and what; web_ok and web_answer:
\* the same for tavily_search
SearchWithMemory(query, use_memory, save_to_memory, memory_threshold, has_memory, mem_ok, mem_answer, web_ok, web_answer) ==
    IF query = ""
    THEN [raised |-> TRUE, memory_called |-> FALSE, web_called |-> FALSE,
          saved |-> <<>>,
          value |-> [memory_results |-> <<>>, web_results |-> <<>>,
                     merged_results |-> <<>>,
                     source_summary |-> [from_memory |-> 0, from_web |-> 0, total |-> 0]]]
    ELSE LET memory_called == use_memory /\ has_memory
             memory_results == IF memory_called /\ mem_ok THEN mem_answer ELSE <<>>
             web_called == NeedWebSearch(memory_results, memory_threshold)
             web_results == IF web_called /\ web_ok THEN web_answer ELSE <<>>
             merged == MergeResults(memory_results, web_results)
         IN  [raised |-> FALSE, memory_called |-> memory_called,
              web_called |-> web_called,
              saved |-> IF web_called /\ web_ok /\ save_to_memory /\ has_memory
                        THEN SaveToMemory(web_results) ELSE <<>>,
              value |-> [memory_results |-> memory_results,
                         web_results |-> web_results,
                         merged_results |-> merged,
                         source_summary |->
                            [from_memory |-> Len(memory_results),
                             from_web |-> Len(web_results),
                             total |-> Len(merged)]]]

SearchInit == search_ret = [op |-> "init"]

\* a caller invokes search_with_memory, once per behaviour (the method keeps
\* no state of its own between calls); the arguments and what the two
\* services did are kept next to the outcome
SearchWithMemoryStep ==
    /\ search_ret.op = "init"
    /\ \E query \in {"", "q"}, use_memory \in BOOLEAN, save_to_memory \in BOOLEAN,
          memory_threshold \in MemoryThresholds, has_memory \in BOOLEAN,
          mem_ok \in BOOLEAN, mem_answer \in ResultLists(FoundInMemory),
          web_ok \in BOOLEAN, web_answer \in ResultLists(FoundOnWeb) :
        search_ret' = [op |-> "search_with_memory", query |-> query,
                       use_memory |-> use_memory, save_to_memory |-> save_to_memory,
                       memory_threshold |-> memory_threshold, has_memory |-> has_memory,
                       mem_ok |-> mem_ok, mem_answer |-> mem_answer,
                       web_ok |-> web_ok, web_answer |-> web_answer,
                       out |-> SearchWithMemory(query, use_memory, save_to_memory,
                                                memory_threshold, has_memory, mem_ok,
                                                mem_answer, web_ok, web_answer)]

SearchNext ==
    /\ SearchWithMemoryStep
    /\ UNCHANGED <<plannerVars, coordVars, memVars, embVars, mergeVars, criticVars>>

Init ==
    PlannerInit /\ CoordInit /\ MemInit /\ EmbInit /\ MergeInit /\ CriticInit
    /\ SearchInit

PlannerNext ==
    /\ \/ DecomposeStep
       \/ GetNextTask
       \/ UpdateStatusStep
    /\ UNCHANGED <<coordVars, memVars, embVars, mergeVars, criticVars, searchVars>>

\* the planner driven by an execution loop
ExecNext ==
    /\ \/ DecomposeOnceStep
       \/ GetNextTask
       \/ ReportStep
       \/ IsCompleteCall
    /\ UNCHANGED <<coordVars, memVars, embVars, mergeVars, criticVars, searchVars>>

CoordStep == CoordNext /\ UNCHANGED <<plannerVars, memVars, embVars, mergeVars, criticVars, searchVars>>

MemStep == MemNext /\ UNCHANGED <<plannerVars, coordVars, embVars, mergeVars, criticVars, searchVars>>

PlannerSpec == Init /\ [][PlannerNext]_vars

CoordSpec == Init /\ [][CoordStep]_vars

\* the callers that always leave duplicate-checking enabled
MemCheckedNext ==
    /\ \/ AddCheckedStep
       \/ DeleteMemoryStep
       \/ CleanupOldMemoriesStep
       \/ MarkAsImportantStep
    /\ UNCHANGED <<plannerVars, coordVars, embVars, mergeVars, criticVars, searchVars>>

\* run() is sequential blocking code: every stage call returns or raises and
\* the next statement then executes
CoordFairSpec == Init /\ [][CoordStep]_vars /\ WF_vars(CoordStep)

MemSpec == Init /\ [][MemStep]_vars

EmbSpec == Init /\ [][EmbNext]_vars

MemQuerySpec == Init /\ [][MemQueryNext]_vars

MergeSpec == Init /\ [][MergeNext]_vars

SweepSpec == Init /\ [][SweepNext]_vars

MemCheckedSpec == Init /\ [][MemCheckedNext]_vars

CriticSpec == Init /\ [][CriticNext]_vars

SearchSpec == Init /\ [][SearchNext]_vars

ExecSpec == Init /\ [][ExecNext]_vars

\* the execution loop keeps asking for the next subtask and reports on every
\* subtask it was handed
ExecFairSpec ==
    /\ Init
    /\ [][ExecNext]_vars
    /\ WF_vars(ExecNext /\ GetNextTask /\ tasks' # tasks)
    /\ WF_vars(ExecNext /\ ReportStep)

(***************************************************************************)
(* Properties                                                              *)
(***************************************************************************)

\* C1: with max_revision_rounds = 2, no stage raising and every Critique
\* failing the gate, run() has called Write exactly 3 times and returns
\* revision_count == 2.
C1_RevisionBound ==
    (/\ pc = "done"
     /\ MaxRevisionRounds = 2
     /\ raised_in = {}
     /\ ~review.pass)
    => /\ calls["write"] = 3
       /\ run_ret.value.revision_count = 2

\* C9: whichever stages raised, in whichever round, run() has not raised and
\* its result carries topic, report, score, scores, revision_count and
\* research_summary.
C9_RunNeverRaises ==
    pc = "done" =>
        /\ ~run_ret.raised
        /\ DOMAIN run_ret.value = {"topic", "report", "score", "scores",
                                   "revision_count", "research_summary"}

\* C9 witness: a run returned although Collect, Analyze and a second-round
\* Write all raised.
C9_Witness ==
    /\ pc = "done"
    /\ raised_in = {"collect", "analyze", "write"}
    /\ calls["write"] = 2
    /\ ~run_ret.raised

\* the Critique stage never completed in this run
CritiqueNeverCompleted ==
    \/ calls["critique"] = 0
    \/ (calls["critique"] = 1 /\ "critique" \in raised_in)

\* C10: when the Critique stage never completed, run() returns overall score
\* 5.0, all five dimension scores 5.0 and a failing gate.
C10_DefaultReview ==
    (pc = "done" /\ CritiqueNeverCompleted)
    => /\ run_ret.value.score = DEFAULT_SCORE
       /\ run_ret.value.scores = [k \in SCORE_KEYS |-> DEFAULT_SCORE]
       /\ ~review.pass

\* no two stored documents are near-duplicates of each other
NoNearDuplicates(coll) ==
    \A i \in DOMAIN coll : \A j \in DOMAIN coll :
        i # j => Similarity(Distance(coll[i].embedding, coll[j].embedding))
                    < DuplicateThreshold

\* C2: after any sequence of add_to_memory calls made with check_duplicate
\* enabled, interleaved with delete_memory, mark_as_important and
\* cleanup_old_memories, the store holds no two documents of similarity
\* >= 0.95, also when the nearest-neighbour lookup of check_duplicate fails.
C2_OnePerKnowledgeUnit == NoNearDuplicates(collection)

\* C3: add_to_memory(t) called twice in a row with duplicate-checking enabled
\* returns the same id both times and the document count grows by exactly 1
\* over the two calls; a second call with check_duplicate=False stores a new
\* document under a different id.
C3_IdempotentInsertion ==
    [][(/\ mem_ret.op = "add" /\ mem_ret.check /\ ~mem_ret.raised
        /\ mem_ret'.op = "add" /\ ~mem_ret'.raised
        /\ mem_ret'.text = mem_ret.text)
       => IF mem_ret'.check
          THEN /\ mem_ret'.value = mem_ret.value
               /\ Cardinality(DOMAIN collection') = mem_ret.count_before + 1
          ELSE /\ mem_ret'.value # mem_ret.value
               /\ mem_ret'.value \notin DOMAIN collection
               /\ Cardinality(DOMAIN collection') = Cardinality(DOMAIN collection) + 1]_vars

\* every dependency of task i names an existing subtask that is completed
DepsCompleted(i, ts) ==
    \A d \in ts[i].dependencies :
        \E j \in DOMAIN ts : ts[j].id = d /\ ts[j].status = "completed"

\* C4: get_next_task() never returns, and never moves to in_progress, a
\* subtask one of whose dependencies is not completed or names no subtask.
C4_DependenciesRespected ==
    [][planner_ret'.op = "get_next_task" =>
        \A i \in DOMAIN tasks :
            (\/ planner_ret'.value = i
             \/ (tasks'[i].status = "in_progress" /\ tasks[i].status # "in_progress"))
            => DepsCompleted(i, tasks)]_vars

\* C4 witness: get_next_task() passed over the lowest-priority pending task,
\* whose dependency names no subtask, and returned the second one.
C4_Witness ==
    /\ planner_ret.op = "get_next_task"
    /\ planner_ret.value = 2
    /\ Len(tasks) = 2
    /\ tasks[1].status = "pending"
    /\ "Z" \in tasks[1].dependencies
    /\ tasks[1].priority < tasks[2].priority

\* C5: once a subtask is completed or skipped, no get_next_task() or
\* update_status() call changes its status.
C5_TerminalStatuses ==
    [][planner_ret'.op \in {"get_next_task", "update_status"} =>
        \A i \in DOMAIN tasks :
            tasks[i].status \in {"completed", "skipped"}
            => tasks'[i].status = tasks[i].status]_vars

\* C6: attempts never exceeds max_attempts, and a subtask whose attempts have
\* reached max_attempts is never returned by get_next_task().
C6_RetryBudget ==
    /\ [](\A i \in DOMAIN tasks : tasks[i].attempts <= tasks[i].max_attempts)
    /\ [][planner_ret'.op = "get_next_task" =>
            \A i \in DOMAIN tasks :
                tasks[i].attempts >= tasks[i].max_attempts
                => /\ planner_ret'.value # i
                   /\ tasks'[i] = tasks[i]]_vars

\* C6 witness: a task failed on its third attempt, and get_next_task() then
\* returned nothing.
C6_Witness ==
    /\ planner_ret.op = "get_next_task"
    /\ planner_ret.value = 0
    /\ \E i \in DOMAIN tasks :
        /\ tasks[i].status = "failed"
        /\ tasks[i].attempts = DefaultMaxAttempts
        /\ DepsCompleted(i, tasks)

\* candidates of get_next_task() in status st
Eligible(st, ts) ==
    { i \in DOMAIN ts :
        ts[i].status = st /\ DepsCompleted(i, ts) /\ ts[i].attempts < ts[i].max_attempts }

\* the tasks are A(prio 1), B(prio 2, dep A), C(prio 1, dep A) with budget left
IsABC(ts) ==
    /\ Len(ts) = 3
    /\ ts[1].id = "A" /\ ts[1].priority = 1 /\ ts[1].dependencies = {}
    /\ ts[2].id = "B" /\ ts[2].priority = 2 /\ ts[2].dependencies = {"A"}
    /\ ts[3].id = "C" /\ ts[3].priority = 1 /\ ts[3].dependencies = {"A"}
    /\ \A i \in 1..3 : ts[i].attempts < ts[i].max_attempts

\* C7: get_next_task() returns the eligible pending subtask of lowest priority
\* number, earliest declared among equals; with no eligible pending subtask an
\* eligible failed one of lowest priority number; it sets exactly that subtask
\* to in_progress with attempts + 1; it returns nothing and changes nothing
\* when there is neither.  For A, B, C it returns A, then C, then B.
C7_NextTaskSelection ==
    [][planner_ret'.op = "get_next_task" =>
        LET r == planner_ret'.value
            P == Eligible("pending", tasks)
            F == Eligible("failed", tasks)
        IN  /\ P # {} =>
                /\ r \in P
                /\ \A j \in P : \/ tasks[r].priority < tasks[j].priority
                                \/ (tasks[r].priority = tasks[j].priority /\ r <= j)
            /\ (P = {} /\ F # {}) =>
                /\ r \in F
                /\ \A j \in F : tasks[r].priority <= tasks[j].priority
            /\ (P = {} /\ F = {}) => (r = 0 /\ tasks' = tasks)
            /\ r # 0 =>
                /\ DOMAIN tasks' = DOMAIN tasks
                /\ tasks'[r] = [tasks[r] EXCEPT !.status = "in_progress",
                                                !.attempts = tasks[r].attempts + 1]
                /\ \A j \in DOMAIN tasks : j # r => tasks'[j] = tasks[j]
            /\ IsABC(tasks) =>
                /\ (\A i \in 1..3 : tasks[i].status = "pending") => r = 1
                /\ (/\ tasks[1].status = "completed"
                    /\ tasks[2].status = "pending"
                    /\ tasks[3].status = "pending") => r = 3
                /\ (/\ tasks[1].status = "completed"
                    /\ tasks[3].status = "completed"
                    /\ tasks[2].status = "pending") => r = 2]_vars

\* C7 witness: of A, B, C each was handed out once; A and C are completed and
\* B is the task get_next_task() has just returned.
C7_Witness ==
    /\ planner_ret.op = "get_next_task"
    /\ planner_ret.value = 2
    /\ Len(tasks) = 3
    /\ tasks[1].status = "completed" /\ tasks[1].attempts = 1
    /\ tasks[3].status = "completed" /\ tasks[3].attempts = 1
    /\ tasks[2].status = "in_progress" /\ tasks[2].attempts = 1

\* an LLM outcome that is malformed or unparsable
Malformed(answer) ==
    \/ answer.kind \in {"api_error", "invalid_json", "non_object"}
    \/ /\ answer.kind = "object"
       /\ \E k \in DOMAIN answer.subtasks :
            ~({"id", "description", "priority"} \subseteq answer.subtasks[k].keys)

\* C8: for a malformed or unparsable LLM outcome decompose(goal) does not
\* raise and leaves exactly the one fallback subtask wrapping the goal
\* (priority 1, no dependencies) as the task set.
C8_DecomposeFallback ==
    (planner_ret.op = "decompose" /\ Malformed(planner_ret.answer))
    => /\ ~planner_ret.raised
       /\ tasks = << Subtask("task_1", original_goal, 1, {}) >>

\* r is what the n-th Write of the run produced (a report text, or the empty
\* report)
IsOutputOfWrite(n, r) == IF r = "" THEN TRUE ELSE r = ReportText(n)

\* C11: if no stage raised and the first passing Critique is the k-th one
\* (1 <= k <= max_revision_rounds + 1), run() returns revision_count == k - 1,
\* score equal to that Critique's overall score and report equal to the k-th
\* Write's output; a fail followed by a 7.8 pass gives revision_count 1 and
\* score 7.8.
C11_FirstPassResult ==
    (pc = "done" /\ raised_in = {} /\ review.pass)
    => LET k == calls["critique"] IN
       /\ k \in 1..(MaxRevisionRounds + 1)
       /\ calls["write"] = k
       /\ run_ret.value.revision_count = k - 1
       /\ run_ret.value.score = review.overall_score
       /\ run_ret.value.report = draft.report
       /\ IsOutputOfWrite(k, run_ret.value.report)
       /\ (k = 2 /\ review.overall_score = 78)
            => (run_ret.value.revision_count = 1 /\ run_ret.value.score = 78)

\* C11 witness: the first Critique failed, the second passed with 7.8, and
\* run() returned the second report.
C11_Witness ==
    /\ pc = "done"
    /\ raised_in = {}
    /\ calls["critique"] = 2
    /\ review.overall_score = 78
    /\ run_ret.value.revision_count = 1
    /\ run_ret.value.score = 78
    /\ run_ret.value.report = ReportText(2)

\* C12: in one run() Write is called at most max_revision_rounds + 1 times;
\* Critique is called only directly after a successful Write of the same
\* round; neither is called after a Critique has returned pass; Collect and
\* Analyze are each called exactly once, before any Write; run() terminates.
C12_LoopControl ==
    /\ [](/\ calls["write"] <= MaxRevisionRounds + 1
          /\ calls["critique"] <= calls["write"]
          /\ calls["collect"] <= 1 /\ calls["analyze"] <= 1
          /\ calls["analyze"] = 1 => calls["collect"] = 1
          /\ calls["write"] >= 1 => (calls["collect"] = 1 /\ calls["analyze"] = 1)
          /\ pc = "done" => (calls["collect"] = 1 /\ calls["analyze"] = 1))
    /\ [][/\ calls'["critique"] = calls["critique"] + 1
             => /\ pc = "critique"
                /\ "write" \notin raised_in
                /\ calls["write"] = calls["critique"] + 1
                /\ calls["write"] = round_num + 1
                /\ IsOutputOfWrite(calls["write"], draft.report)
          /\ (review.pass /\ pc' # "collect") => calls' = calls]_vars
    /\ (pc = "collect") ~> (pc = "done")

\* C12 witness: a run ended after three Writes and three Critiques, none of
\* which passed.
C12_Witness ==
    /\ pc = "done"
    /\ calls = [s \in Stages |->
                  IF s \in {"write", "critique"} THEN MaxRevisionRounds + 1 ELSE 1]
    /\ ~review.pass

\* the elements of a sequence
Range(seq) == {seq[i] : i \in DOMAIN seq}

\* C13: once a text is in the cache, every later create_embedding(text) or
\* create_embeddings([... text ...]) returns the cached vector, the text is
\* not sent to the provider (api_call_count unchanged when nothing else is
\* fetched), and no call removes a cache entry or changes its vector.
C13_CachedVectorReturned ==
    [][LET cache == embedding_generator.cache
           ret == emb_ret'
       IN /\ \A i \in DOMAIN ret.texts :
                ret.texts[i] \in DOMAIN cache
                => /\ ret.texts[i] \notin Range(ret.sent)
                   /\ ~ret.raised => ret.value[i] = cache[ret.texts[i]]
          /\ Range(ret.texts) \subseteq DOMAIN cache
                => embedding_generator'.api_call_count = embedding_generator.api_call_count
          /\ \A t \in DOMAIN cache :
                /\ t \in DOMAIN embedding_generator'.cache
                /\ embedding_generator'.cache[t] = cache[t]]_vars

\* C13 witness: a batch mixed a cached text with an uncached one; only the
\* uncached one went to the provider and both vectors came back.
C13_Witness ==
    /\ emb_ret.op = "create_embeddings"
    /\ ~emb_ret.raised
    /\ Len(emb_ret.texts) = 2
    /\ Len(emb_ret.sent) = 1
    /\ emb_ret.texts[1] \notin Range(emb_ret.sent)
    /\ embedding_generator.cache_hit_count >= 1

\* C14: create_embeddings(texts) either returns exactly len(texts) vectors,
\* the i-th being the vector of texts[i], after one batched provider request
\* (with its retries) for the uncached texts in input order, or raises and
\* returns nothing; when it raises the cache contents are those before the call.
C14_BatchAtomic ==
    [][emb_ret'.op = "create_embeddings" =>
        LET gen == embedding_generator
            ret == emb_ret'
            spent == embedding_generator'.api_call_count - gen.api_call_count
        IN IF ret.raised
           THEN /\ ret.value = <<>>
                /\ embedding_generator'.cache = gen.cache
           ELSE /\ Len(ret.value) = Len(ret.texts)
                /\ \A i \in DOMAIN ret.texts : ret.value[i] = Embedding(ret.texts[i])
                /\ ret.sent = SelectSeq(ret.texts, LAMBDA t : t \notin DOMAIN gen.cache)
                /\ IF ret.sent = <<>> THEN spent = 0 ELSE spent \in 1..MaxRetries
                /\ DOMAIN embedding_generator'.cache = DOMAIN gen.cache \cup Range(ret.texts)]_vars

\* C14 witness: of a batch (uncached, cached) only the first text went to the
\* provider, and the two vectors came back in input order.
C14_Witness ==
    /\ emb_ret.op = "create_embeddings"
    /\ ~emb_ret.raised
    /\ Len(emb_ret.texts) = 2
    /\ emb_ret.sent = <<emb_ret.texts[1]>>
    /\ emb_ret.texts[2] # emb_ret.texts[1]
    /\ emb_ret.value = <<Embedding(emb_ret.texts[1]), Embedding(emb_ret.texts[2])>>

\* C15: create_embedding, add_to_memory, search_memory and decompose reject an
\* empty (or whitespace-only) text, query or goal immediately: the call ends
\* in an input-validation error, no embedding, LLM or vector-store call is
\* made, and cache, counters, store and task set are unchanged.
C15_EmptyInputRejected ==
    [][/\ (planner_ret'.op = "decompose" /\ planner_ret'.goal = "")
            => /\ planner_ret'.raised
               /\ planner_ret'.llm_calls = 0
               /\ tasks' = tasks
       /\ (emb_ret'.op = "create_embedding" /\ emb_ret'.texts = <<EmptyText>>)
            => /\ emb_ret'.raised
               /\ emb_ret'.sent = <<>>
               /\ embedding_generator' = embedding_generator
       /\ (mem_ret'.op \in {"add", "search"} /\ mem_ret'.text = EmptyText)
            => /\ mem_ret'.raised
               /\ embedding_generator' = embedding_generator
               /\ collection' = collection]_vars

\* the similarity of the stored document nearest to text
NearestSimilarity(coll, text) ==
    LET n == CHOOSE i \in NearestChoices(coll, Embedding(text)) : TRUE
    IN Similarity(Distance(Embedding(text), coll[n].embedding))

\* C16: check_duplicate(text, threshold) returns the single nearest stored
\* neighbour (id, text, metadata, similarity) if and only if that neighbour's
\* similarity is >= threshold, and nothing on an empty store or a nearest
\* similarity below the threshold; a text identical to a stored document is
\* a hit at threshold 0.95 and an unrelated text is not.
C16_ThresholdCorrect ==
    [][(mem_ret'.op = "check_duplicate" /\ mem_ret'.text # EmptyText) =>
        LET ret == mem_ret'.value
            text == mem_ret'.text
            stored == DOMAIN collection # {}
        IN /\ ret.found <=> (stored /\ NearestSimilarity(collection, text) >= ret.threshold)
           /\ ret.found =>
                /\ ret.hit.id \in NearestChoices(collection, Embedding(text))
                /\ ret.hit.text = collection[ret.hit.id].text
                /\ ret.hit.metadata = collection[ret.hit.id].metadata
                /\ ret.hit.similarity = NearestSimilarity(collection, text)
           /\ (ret.threshold = DuplicateThreshold
               /\ \E i \in DOMAIN collection : collection[i].text = text) => ret.found
           /\ (ret.threshold = DuplicateThreshold /\ stored
               /\ \A i \in DOMAIN collection :
                    Similarity(Distance(Embedding(text), collection[i].embedding))
                        < DuplicateThreshold) => ~ret.found]_vars

\* C17: check_duplicate never mutates state: after any call the stored
\* documents, the embedding cache and the hit/miss/request counters are what
\* they were before the call.
C17_CheckDuplicatePure ==
    [][mem_ret'.op = "check_duplicate" =>
        /\ collection' = collection
        /\ embedding_generator'.cache = embedding_generator.cache
        /\ embedding_generator'.cache_hit_count = embedding_generator.cache_hit_count
        /\ embedding_generator'.cache_hits = embedding_generator.cache_hits
        /\ embedding_generator'.total_requests = embedding_generator.total_requests
        /\ embedding_generator'.api_call_count = embedding_generator.api_call_count
        /\ embedding_generator'.embedding_count = embedding_generator.embedding_count]_vars

\* C18: search_memory(query, top_k, filter) returns at most top_k results,
\* each with a similarity in [0,1] that is 1 minus the store's cosine
\* distance, in non-increasing order of similarity, and only documents whose
\* metadata match the filter exactly.
C18_SearchResults ==
    [][(mem_ret'.op = "search" /\ ~mem_ret'.raised) =>
        LET ret == mem_ret'.value
            res == ret.results
        IN /\ Len(res) <= ret.top_k
           /\ \A i \in DOMAIN res :
                /\ res[i].id \in DOMAIN collection
                /\ res[i].similarity =
                     100 - Distance(Embedding(mem_ret'.text),
                                    collection[res[i].id].embedding)
                /\ res[i].similarity >= 0 /\ res[i].similarity <= 100
                /\ MatchesFilter(collection[res[i].id].metadata, ret.filter_dict)
           /\ \A i, j \in DOMAIN res : i < j => res[i].similarity >= res[j].similarity]_vars

\* the score an item is ranked by: similarity for memory-origin items, score
\* for web-origin items
VariantScore(item) ==
    IF item.source = "memory" THEN item.similarity ELSE item.score

C20_CleanupSafe ==
    [][mem_ret'.op = "cleanup" =>
        LET ret == mem_ret'.value
            removed == DOMAIN collection \ DOMAIN collection'
            old(i) == /\ Get(collection[i].metadata, "timestamp", NoStamp) # NoStamp
                      /\ collection[i].metadata.timestamp < ret.cutoff_date
            flagged(i) == Get(collection[i].metadata, "important", FALSE)
        IN /\ DOMAIN collection' \subseteq DOMAIN collection
           /\ \A i \in DOMAIN collection' : collection'[i] = collection[i]
           /\ mem_ret'.check => \A i \in removed : ~flagged(i)
           /\ \A i \in removed : old(i)
           /\ ret.deleted = Cardinality(removed)
           /\ (\A i \in DOMAIN collection' : ~old(i) \/ (mem_ret'.check /\ flagged(i)))
                => ret.deleted + ret.kept = Cardinality(DOMAIN collection)]_vars

\* C20 witness: a sweep with keep_important=True deleted an old document and
\* left an older-than-cutoff important one in the store.
C20_Witness ==
    /\ mem_ret.op = "cleanup"
    /\ mem_ret.check
    /\ mem_ret.value.deleted = 1
    /\ mem_ret.value.kept = 1
    /\ \E i \in DOMAIN collection :
        /\ Get(collection[i].metadata, "important", FALSE)
        /\ collection[i].metadata.timestamp # NoStamp
        /\ collection[i].metadata.timestamp < mem_ret.value.cutoff_date

\* |x - y|
AbsDiff(x, y) == IF x >= y THEN x - y ELSE y - x

\* what C21 says about the dimension scores and the default result
CritiqueDimensions ==
    LET data == critic_ret.data
        value == critic_ret.value
    IN  /\ DOMAIN value.scores = SCORE_KEYS
        /\ \A k \in SCORE_KEYS :
            /\ value.scores[k] >= 100 /\ value.scores[k] <= 1000
            /\ (data.kind = "object" /\ data.has_scores /\ data.scores[k].kind # "number")
                => value.scores[k] = 500
            /\ (data.kind = "object" /\ data.has_scores /\ data.scores[k].kind = "number"
                    /\ data.scores[k].v >= 100 /\ data.scores[k].v <= 1000)
                => value.scores[k] = data.scores[k].v
        /\ (data.kind = "empty" \/ ~data.has_scores)
            => /\ \A k \in SCORE_KEYS : value.scores[k] = 500
               /\ value.overall_score = 500
               /\ ~value.pass
        /\ value.pass <=> value.overall_score >= 700

InProgress(ts) == {i \in DOMAIN ts : ts[i].status = "in_progress"}

\* C22: the scheduler hands out one task at a time: in every reachable state
\* at most one subtask is in_progress, and get_next_task() does not hand out a
\* second subtask while an earlier one is still in_progress.
C22_OneTaskAtATime ==
    /\ Cardinality(InProgress(tasks)) <= 1
    /\ (planner_ret.op = "get_next_task" /\ planner_ret.value # 0)
        => InProgress(tasks) = {planner_ret.value}

\* C23: every Write call after the first in one run() is a revision pass: it
\* receives the report text of the preceding Write and the feedback text of
\* the preceding failed Critique, and the writer rewrites from those instead
\* of producing a fresh initial report, also when that feedback text is empty.
C23_RevisionPass ==
    [][(calls'["write"] = calls["write"] + 1 /\ calls["write"] >= 1) =>
        /\ "feedback" \in DOMAIN writer_input'
        /\ "report" \in DOMAIN writer_input'
        /\ Get(writer_input', "feedback", "None") = Get(review, "feedback", "")
        /\ Get(writer_input', "report", "None") = Get(draft, "report", "")
        /\ pc' = "critique" => Get(draft', "has_revision", FALSE)]_vars

\* the duplicate rule as C24 words it
DuplicatePair(c1, c2) ==
    IF Len(c1) > 50 /\ Len(c2) > 50 THEN c1 = c2
    ELSE Contains(c1, c2) \/ Contains(c2, c1)

\* C24: _remove_duplicates treats two contents longer than 50 characters as
\* duplicates only if they are equal and otherwise also when one contains the
\* other; it keeps the first occurrence in concatenation order (memory before
\* web), drops items with empty content, returns no two items that are
\* duplicates of each other, and applied to its own output changes nothing.
C24_RemoveDuplicates ==
    LET tagged == Tagged(merge_ret.memory_results, merge_ret.web_results)
        unique == merge_ret.unique
    IN  /\ \E kept \in SUBSET DOMAIN tagged :
            /\ Len(unique) = Cardinality(kept)
            /\ \A i \in kept : unique[Cardinality({j \in kept : j <= i})] = tagged[i]
            /\ \A i \in DOMAIN tagged :
                i \in kept <=>
                    /\ tagged[i].content # <<>>
                    /\ \A j \in kept :
                        j < i => ~DuplicatePair(tagged[j].content, tagged[i].content)
        /\ \A i, j \in DOMAIN unique :
            i # j => ~DuplicatePair(unique[i].content, unique[j].content)
        /\ RemoveDuplicates(unique, <<>>) = unique

\* C24 witness: the short memory text absorbed the short web text containing
\* it, while the 51-character memory text and the 52-character web text that
\* contains it were both kept.
C24_Witness ==
    /\ Len(merge_ret.memory_results) = 2 /\ Len(merge_ret.web_results) = 2
    /\ Len(merge_ret.unique) = 3
    /\ merge_ret.unique[1].content = ShortAB
    /\ merge_ret.unique[2].content = Long51 /\ merge_ret.unique[2].source = "memory"
    /\ merge_ret.unique[3].content = Long52
    /\ \E k \in DOMAIN merge_ret.web_results :
        Get(merge_ret.web_results[k], "content", <<>>) = ShortABC

\* C25: search_with_memory performs the web search iff the number of memory
\* results (0 when memory is disabled, unavailable or its search failed) is
\* strictly less than memory_threshold; when it is skipped web_results is
\* empty and nothing is saved to memory; source_summary.total is the length
\* of merged_results and at most from_memory + from_web; only an empty query
\* makes the call raise.
C25_WebSearchGate ==
    search_ret.op = "search_with_memory" =>
        LET out == search_ret.out
            found == IF search_ret.use_memory /\ search_ret.has_memory /\ search_ret.mem_ok
                     THEN Len(search_ret.mem_answer) ELSE 0
            summary == out.value.source_summary
        IN  /\ out.raised <=> search_ret.query = ""
            /\ ~out.raised =>
                /\ out.web_called <=> found < search_ret.memory_threshold
                /\ ~out.web_called => (out.value.web_results = <<>> /\ out.saved = <<>>)
                /\ summary.from_memory = found
                /\ summary.total = Len(out.value.merged_results)
                /\ summary.total <= summary.from_memory + summary.from_web

\* C25 witness: the memory results were exactly as many as memory_threshold,
\* so the web search was skipped although the provider had results and saving
\* was on.
C25_Witness ==
    /\ search_ret.op = "search_with_memory"
    /\ ~search_ret.out.raised
    /\ search_ret.memory_threshold = MaxResults
    /\ Len(search_ret.out.value.memory_results) = MaxResults
    /\ search_ret.web_ok /\ search_ret.web_answer # <<>> /\ search_ret.save_to_memory
    /\ ~search_ret.out.web_called
    /\ search_ret.out.value.web_results = <<>>
    /\ search_ret.out.value.source_summary.total >= 1

\* C26: on a cache miss create_embedding(text) makes at most 3 provider calls,
\* api_call_count growing by the attempts made, with blocking delays of 1 and
\* then 2 seconds between attempts and none after the last; a successful
\* attempt stores the vector under the exact text and returns it; after 3
\* failures an error is raised and the cache holds no entry for text.
C26_BoundedRetry ==
    [][(/\ emb_ret'.op = "create_embedding"
        /\ emb_ret'.texts # <<EmptyText>>
        /\ emb_ret'.texts[1] \notin DOMAIN embedding_generator.cache) =>
        LET text == emb_ret'.texts[1]
            spent == embedding_generator'.api_call_count
                        - embedding_generator.api_call_count
        IN  /\ spent \in 1..3
            /\ emb_ret'.slept = SubSeq(<<1, 2>>, 1, spent - 1)
            /\ IF emb_ret'.raised
               THEN /\ spent = 3
                    /\ emb_ret'.value = <<>>
                    /\ embedding_generator'.cache = embedding_generator.cache
               ELSE /\ emb_ret'.value = <<Embedding(text)>>
                    /\ DOMAIN embedding_generator'.cache
                          = DOMAIN embedding_generator.cache \cup {text}
                    /\ embedding_generator'.cache[text] = Embedding(text)
                    /\ \A t \in DOMAIN embedding_generator.cache :
                          embedding_generator'.cache[t] = embedding_generator.cache[t]]_vars

\* C26 witness: a create_embedding on an uncached text succeeded on its third
\* attempt, after waiting 1 and then 2 seconds.
C26_Witness ==
    /\ emb_ret.op = "create_embedding"
    /\ ~emb_ret.raised
    /\ emb_ret.sent = emb_ret.texts
    /\ emb_ret.slept = <<1, 2>>
    /\ embedding_generator.api_call_count = 3
    /\ emb_ret.texts[1] \in DOMAIN embedding_generator.cache

\* a dependency id that can never be satisfied: it names no subtask, or the
\* subtask it names is failed with its attempts used up
Unsatisfiable(dep_id, ts) ==
    \/ GetTaskById(dep_id, ts) = 0
    \/ /\ ts[GetTaskById(dep_id, ts)].status = "failed"
       /\ ts[GetTaskById(dep_id, ts)].attempts >= ts[GetTaskById(dep_id, ts)].max_attempts

\* the subtasks that depend on such a dependency
BlockedDependents(ts) ==
    {i \in DOMAIN ts : \E dep_id \in ts[i].dependencies : Unsatisfiable(dep_id, ts)}

\* the subtasks out of the scheduler's reach: those failed for good, the
\* blocked dependents, and whatever depends on these in turn
RECURSIVE Stuck(_, _)
Stuck(ts, acc) ==
    LET more == {i \in DOMAIN ts :
                    \/ i \in acc
                    \/ ts[i].status = "failed" /\ ts[i].attempts >= ts[i].max_attempts
                    \/ i \in BlockedDependents(ts)
                    \/ \E j \in acc : ts[j].id \in ts[i].dependencies}
    IN IF more = acc THEN acc ELSE Stuck(ts, more)

C28_MarkKeepsDocument ==
    [][mem_ret'.op = "mark" =>
        /\ DOMAIN collection' = DOMAIN collection
        /\ \A id \in DOMAIN collection :
            /\ collection'[id].text = collection[id].text
            /\ \A key \in DOMAIN collection[id].metadata \ {"important"} :
                /\ key \in DOMAIN collection'[id].metadata
                /\ collection'[id].metadata[key] = collection[id].metadata[key]
            /\ DOMAIN collection'[id].metadata \subseteq
                    DOMAIN collection[id].metadata \cup {"important"}
        /\ (DOMAIN collection = {} => (mem_ret'.value = 0 /\ collection' = collection))]_vars

\* the Critique calls of this run that returned a review
CritiquesCompleted ==
    calls["critique"] - (IF "critique" \in raised_in THEN 1 ELSE 0)

\* C29: whenever run() returns after at least one Critique completed, the
\* returned score and scores are those of the Critique that evaluated exactly
\* the returned report text, also when Write or Critique raised in a later
\* round.
C29_ScoreMatchesReport ==
    (pc = "done" /\ ~run_ret.raised /\ CritiquesCompleted >= 1) =>
        /\ run_ret.value.score = review.overall_score
        /\ run_ret.value.scores = review.scores
        \* a failed Critique leaves the text it evaluated in previous_report
        /\ review.pass \/ run_ret.value.report = previous_report

\* the ids subtask i depends on, directly or through other subtasks
RECURSIVE DependsOn(_, _, _)
DependsOn(i, ts, acc) ==
    LET more == acc \cup ts[i].dependencies
                    \cup UNION {ts[j].dependencies : j \in {k \in DOMAIN ts : ts[k].id \in acc}}
    IN IF more = acc THEN acc ELSE DependsOn(i, ts, more)

\* every dependency id names a subtask and no subtask depends on itself
WellFormed(ts) ==
    \A i \in DOMAIN ts :
        /\ \A dep_id \in ts[i].dependencies : \E j \in DOMAIN ts : ts[j].id = dep_id
        /\ ts[i].id \notin DependsOn(i, ts, {})

\* the execution loop has reported something other than a completion
ReportedOtherThanCompleted ==
    \E i \in DOMAIN tasks : tasks[i].status \in {"failed", "skipped"}

====
